---- MODULE Spec2Model ----
(***************************************************************************)
(* A model of the Quest3-Teleop pan/tilt controller: the Dynamixel driver  *)
(* (driver.py), the joint-space adapter (dynamixel_robot.py) and the       *)
(* keyboard session (Television_Keyboard_Code.py) and the head-tracker      *)
(* session (Television_Quest_Sync.py).                                     *)
(*                                                                         *)
(* Spec runs the driver step by step: the poller thread and one control    *)
(* thread, interleaved.  SpecKeyboard and SpecQuest run the session        *)
(* scripts; there each driver call is one step and a poll cycle is one     *)
(* step, which the port lock makes indivisible.  SpecSessions runs either  *)
(* script.                                                                 *)
(*                                                                         *)
(* Angles are fixed-point: one unit is pi / (2048 * Sub) rad, so that one  *)
(* actuator tick is Sub units and pi is 2048 * Sub units.  Head angles are  *)
(* in tenths of a degree, time in half seconds.  Python indexes joints     *)
(* 0..2, the model 1..3.                                                   *)
(***************************************************************************)
EXTENDS Integers, Sequences, FiniteSets, TLC

\* ---------------------------------------------------------------- bounds
\* angle units per actuator tick (the resolution of the fixed-point angles)
Sub == 4
\* poll cycles the background thread may start
MaxCycles == 2
\* driver calls the control thread makes before close()
MaxOps == 2
\* datagrams the socket queues between two reads of the head-tracker session
MaxQueue == 2
\* half seconds the clock of the head-tracker loop is followed past a reset
MaxAge == 3

\* ------------------------------------------------------- program constants
ADDR_TORQUE_ENABLE == 64
ADDR_GOAL_POSITION == 116
TORQUE_ENABLE == 1
TORQUE_DISABLE == 0
JOINT_IDS == <<2, 1, 3>>
JOINT_SIGNS == <<1, 1, -1>>

N == Len(JOINT_IDS)
Joints == 1..N

\* pi, in angle units
Pi == 2048 * Sub

\* c hundredths of a radian, in angle units (2048 / (100 pi) = 6.519),
\* rounded to the nearest unit
RadC(c) ==
    IF c >= 0 THEN (c * Sub * 6519 + 500) \div 1000
    ELSE -(((-c) * Sub * 6519 + 500) \div 1000)

\* ------------------------------------------------------------ arithmetic
\* Python's int(): the quotient a / b truncated toward zero (b > 0)
TruncDiv(a, b) == IF a >= 0 THEN a \div b ELSE -((-a) \div b)

Min2(a, b) == IF a <= b THEN a ELSE b
Max2(a, b) == IF a >= b THEN a ELSE b

\* np.int32(np.uint32(angle)): a 32-bit register value, given as its two
\* 16-bit halves <<hi, lo>>, reinterpreted as a signed 32-bit integer
U32ToI32(raw) ==
    (IF raw[1] >= 32768 THEN raw[1] - 65536 ELSE raw[1]) * 65536 + raw[2]

\* int((angle * 2048 / np.pi) + 2048), not yet clamped
GoalTickRaw(angle) == TruncDiv(angle + 2048 * Sub, Sub)

\* a mutant of GoalTick: the tick is written as computed
GoalTickUnclamped(angle) == GoalTickRaw(angle)

\* position_value of set_joints: max(0, min(4095, position_value))
GoalTick(angle) == Max2(0, Min2(4095, GoalTickRaw(angle)))

\* (_j - 2048.0) * np.pi / 2048.0
TickToRad(t) == (t - 2048) * Sub

\* a mutant of wrap_to_pi: the range is closed at pi and open at -pi
WrapToPiClosedAbove(x) == Pi - ((Pi - x) % (2 * Pi))

\* wrap_to_pi
wrap_to_pi(x) == ((x + Pi) % (2 * Pi)) - Pi

\* ------------------------------------------------------------------ state
VARIABLES
    port_lock,        \* holder of DynamixelDriver._port_lock: "free", "poller", "ctrl"
    portOpen,         \* the serial port is open
    stop_thread,      \* DynamixelDriver._stop_thread
    torque_enabled,   \* DynamixelDriver._torque_enabled
    joint_angles,     \* DynamixelDriver._joint_angles, the position cache (raw ticks)
    pollPc,           \* position of the poller thread in _read_joint_angles
    pollI,            \* the poller's loop index i (1-based)
    temp_angles,      \* the poller's temp_angles
    read_success,     \* the poller's read_success
    cycle,            \* poll cycles started so far
    cycleReads,       \* history: the readings of the cycle in progress, in order
    lastCommitted,    \* history: the vector the last successful cycle stored
    ctrlPc,           \* position of the control thread inside the driver
    ctrlI,            \* the control thread's index in a write loop
    sjArg,            \* joint_angles argument of the set_joints in progress
    tmArg,            \* enable argument of the set_torque_mode in progress
    closing,          \* the control thread is inside close()
    opsDone,          \* driver calls made so far
    lastCall,         \* history: the driver method called last
    txLog,            \* register writes of the current or last bus-writing call
    writeOk,          \* the last register write returned COMM_SUCCESS
    gjRet,            \* the value the last get_joints returned
    sessPc,           \* position of the session script (main) in its control flow
    robot_torque_on,  \* DynamixelRobot._torque_on
    home_position,    \* home_position, captured at session start
    reported,         \* joints the startup safety check printed as out of bounds
    keyLR,            \* the left/right key state sampled by the last tick
    keyUD,            \* the up/down key state sampled by the last tick
    current_pos,      \* current_pos of the return-home loop
    rampPass,         \* history: parity of the passes of the return-home loop
    cmd,              \* argument of command_joint_state in the last step, or NoCmd
    cmdPhase,         \* history: the control state in which cmd was issued
    anyCmd,           \* history: command_joint_state has been called
    sock,             \* datagrams queued at the UDP socket, oldest first
    quest_zero,       \* <<quest_zero_pitch, quest_zero_yaw>>
    zeroIter,         \* passes of "for _ in range(50)" completed
    last_sent_command,\* last_sent_command of the head-tracker loop
    age,              \* time.time() - last_command_time, in half seconds
    offset_deg,       \* <<pitch_offset_deg, yaw_offset_deg>> of the last parsed sample
    target_pos,       \* target_pos of the last parsed sample
    drained,          \* history: datagrams the last pass of the loop dequeued
    latest_data,      \* latest_data of a pass whose receive loop is in progress
    issued,           \* history: the head-tracker session's last joint command
    fake_signs,       \* DynamixelRobot._joint_signs of a robot built with real=False
    fake_offsets,     \* DynamixelRobot._joint_offsets of that robot
    fake_joint_angles,\* FakeDynamixelDriver._joint_angles
    fake_cmd,         \* history: argument of that robot's last command_joint_state
    fake_ret,         \* the value its last get_joint_state returned
    fakePc            \* "commanded" after a command, "read" after the read that follows

driverVars ==
    <<port_lock, portOpen, stop_thread, torque_enabled, joint_angles, pollPc,
      pollI, temp_angles, read_success, cycle, cycleReads, lastCommitted,
      ctrlPc, ctrlI, sjArg, tmArg, closing, opsDone, lastCall, txLog, writeOk,
      gjRet>>

\* the socket and the locals of the head-tracker session
questLocals ==
    <<sock, quest_zero, zeroIter, last_sent_command, age, offset_deg,
      target_pos, drained, latest_data>>

questVars == <<questLocals, issued>>

sessVars ==
    <<sessPc, robot_torque_on, home_position, reported, keyLR, keyUD,
      current_pos, rampPass, cmd, cmdPhase, anyCmd, questVars>>

\* a DynamixelRobot over the FakeDynamixelDriver
fakeVars ==
    <<fake_signs, fake_offsets, fake_joint_angles, fake_cmd, fake_ret, fakePc>>

vars == <<driverVars, sessVars, fakeVars>>

\* ------------------------------------------------------------------ inputs
\* present-position register values the actuators may report, as <<hi, lo>>
\* halves: tick 1070 and 0xFFFFFFFF (tick -1 of a multi-turn count)
RawReads == { <<0, 1070>>, <<65535, 65535>> }

\* joint vectors handed to set_joints: an in-range one with fractional ticks,
\* and one outside [-pi, pi] on both sides
SetJointsArgs ==
    { <<RadC(25) + 3, -RadC(150) - 3, RadC(150)>>,
      <<3 * Pi, -3 * Pi, Pi - 1>> }

ZeroVec == [i \in Joints |-> 0]

\* no command_joint_state call in the last step
NoCmd == <<>>

\* latest_data = None
NoData == [kind |-> "none", pitch |-> 0, yaw |-> 0]

\* the session variables before main() has run
SessIdle ==
    /\ sessPc = "init"
    /\ robot_torque_on = FALSE
    /\ home_position = ZeroVec
    /\ reported = {}
    /\ keyLR = "none"
    /\ keyUD = "none"
    /\ current_pos = ZeroVec
    /\ rampPass = 0
    /\ cmd = NoCmd
    /\ cmdPhase = "none"
    /\ anyCmd = FALSE
    /\ sock = <<>>
    /\ quest_zero = <<0, 0>>
    /\ zeroIter = 0
    /\ last_sent_command = ZeroVec
    /\ age = 0
    /\ offset_deg = <<0, 0>>
    /\ target_pos = ZeroVec
    /\ drained = 0
    /\ latest_data = NoData
    /\ issued = [by |-> "none", pos |-> ZeroVec]

\* no robot over the fake driver has been built: JOINT_SIGNS, no offsets
FakeIdle ==
    /\ fake_signs = JOINT_SIGNS
    /\ fake_offsets = ZeroVec
    /\ fake_joint_angles = ZeroVec
    /\ fake_cmd = ZeroVec
    /\ fake_ret = ZeroVec
    /\ fakePc = "idle"

\* ------------------------------------------------------------- DynamixelDriver
\* the driver's fields as __init__ sets them (cache of zeros, torque flag
\* false), with the port open or not; after a successful construction the
\* port is open and the poller thread started
DriverState(open) ==
    /\ port_lock = "free"
    /\ portOpen = open
    /\ stop_thread = FALSE
    /\ torque_enabled = FALSE
    /\ joint_angles = ZeroVec
    /\ pollPc = "while"
    /\ pollI = 1
    /\ temp_angles = ZeroVec
    /\ read_success = FALSE
    /\ cycle = 0
    /\ cycleReads = <<>>
    /\ lastCommitted = ZeroVec
    /\ ctrlPc = "idle"
    /\ ctrlI = 1
    /\ sjArg = ZeroVec
    /\ tmArg = FALSE
    /\ closing = FALSE
    /\ opsDone = 0
    /\ lastCall = "none"
    /\ txLog = <<>>
    /\ writeOk = TRUE
    /\ gjRet = ZeroVec

DriverInit == DriverState(TRUE)

pollerVars == <<pollPc, pollI, temp_angles, read_success, cycle, cycleReads>>
ctrlVars ==
    <<ctrlPc, ctrlI, sjArg, tmArg, closing, opsDone, lastCall, txLog, writeOk,
      gjRet>>

\* ---- the poller thread: _read_joint_angles
\* a mutant of PollWhile: the loop test does not read the stop flag
PollWhileIgnoreStop ==
    /\ pollPc = "while"
    /\ cycle < MaxCycles
    /\ pollPc' = "lock"
    /\ UNCHANGED <<port_lock, portOpen, stop_thread, torque_enabled,
                   joint_angles,
                   pollI, temp_angles, read_success, cycle, cycleReads,
                   lastCommitted>>
    /\ UNCHANGED ctrlVars
    /\ UNCHANGED sessVars
    /\ UNCHANGED fakeVars

\* while not self._stop_thread.is_set():
PollWhile ==
    /\ pollPc = "while"
    /\ IF stop_thread
       THEN pollPc' = "exited"
       ELSE /\ cycle < MaxCycles
            /\ pollPc' = "lock"
    /\ UNCHANGED <<port_lock, portOpen, stop_thread, torque_enabled,
                   joint_angles,
                   pollI, temp_angles, read_success, cycle, cycleReads,
                   lastCommitted>>
    /\ UNCHANGED ctrlVars
    /\ UNCHANGED sessVars
    /\ UNCHANGED fakeVars

\* with self._port_lock:
PollAcquire ==
    /\ pollPc = "lock"
    /\ port_lock = "free"
    /\ port_lock' = "poller"
    /\ pollPc' = "txrx"
    /\ cycle' = cycle + 1
    /\ cycleReads' = <<>>
    /\ UNCHANGED <<portOpen, stop_thread, torque_enabled, joint_angles, pollI,
                   temp_angles, read_success, lastCommitted>>
    /\ UNCHANGED ctrlVars
    /\ UNCHANGED sessVars
    /\ UNCHANGED fakeVars

\* dxl_comm_result = self._groupSyncRead.txRxPacket(); on COMM_SUCCESS the
\* cache is copied into temp_angles, otherwise the cycle ends (lock released,
\* sleep).  On a closed port the transaction fails or raises, which ends the
\* thread.
PollTxRx ==
    /\ pollPc = "txrx"
    /\ \E res \in IF portOpen THEN {"success", "fail"} ELSE {"fail", "raise"} :
         IF res = "success"
         THEN /\ temp_angles' = joint_angles
              /\ read_success' = TRUE
              /\ pollI' = 1
              /\ pollPc' = "read"
              /\ UNCHANGED port_lock
         ELSE /\ port_lock' = "free"
              /\ pollPc' = IF res = "raise" THEN "dead" ELSE "while"
              /\ UNCHANGED <<temp_angles, read_success, pollI>>
    /\ UNCHANGED <<portOpen, stop_thread, torque_enabled, joint_angles, cycle,
                   cycleReads, lastCommitted>>
    /\ UNCHANGED ctrlVars
    /\ UNCHANGED sessVars
    /\ UNCHANGED fakeVars

\* a mutant of PollRead: temp_angles aliases the cache (no .copy()), so each
\* reading lands in the cache at once
PollReadInPlace ==
    /\ pollPc = "read"
    /\ \E avail \in BOOLEAN, raw \in RawReads :
         IF avail
         THEN /\ temp_angles' = [temp_angles EXCEPT ![pollI] = U32ToI32(raw)]
              /\ joint_angles' = [joint_angles EXCEPT ![pollI] = U32ToI32(raw)]
              /\ cycleReads' = Append(cycleReads, U32ToI32(raw))
              /\ pollI' = pollI + 1
              /\ pollPc' = IF pollI = N THEN "commit" ELSE "read"
              /\ UNCHANGED read_success
         ELSE /\ read_success' = FALSE
              /\ pollPc' = "commit"
              /\ UNCHANGED <<temp_angles, joint_angles, cycleReads, pollI>>
    /\ UNCHANGED <<port_lock, portOpen, stop_thread, torque_enabled, cycle,
                   lastCommitted>>
    /\ UNCHANGED ctrlVars
    /\ UNCHANGED sessVars
    /\ UNCHANGED fakeVars

\* one iteration of "for i, dxl_id in enumerate(self._ids)": isAvailable,
\* then getData into temp_angles[i], or read_success = False and break
PollRead ==
    /\ pollPc = "read"
    /\ \E avail \in BOOLEAN, raw \in RawReads :
         IF avail
         THEN /\ temp_angles' = [temp_angles EXCEPT ![pollI] = U32ToI32(raw)]
              /\ cycleReads' = Append(cycleReads, U32ToI32(raw))
              /\ pollI' = pollI + 1
              /\ pollPc' = IF pollI = N THEN "commit" ELSE "read"
              /\ UNCHANGED read_success
         ELSE /\ read_success' = FALSE
              /\ pollPc' = "commit"
              /\ UNCHANGED <<temp_angles, cycleReads, pollI>>
    /\ UNCHANGED <<port_lock, portOpen, stop_thread, torque_enabled,
                   joint_angles,
                   cycle, lastCommitted>>
    /\ UNCHANGED ctrlVars
    /\ UNCHANGED sessVars
    /\ UNCHANGED fakeVars

\* a mutant of PollCommit: temp_angles is stored whatever read_success is
PollCommitAlways ==
    /\ pollPc = "commit"
    /\ joint_angles' = temp_angles
    /\ lastCommitted' = IF read_success THEN temp_angles ELSE lastCommitted
    /\ port_lock' = "free"
    /\ pollPc' = "while"
    /\ UNCHANGED <<portOpen, stop_thread, torque_enabled, pollI, temp_angles,
                   read_success, cycle, cycleReads>>
    /\ UNCHANGED ctrlVars
    /\ UNCHANGED sessVars
    /\ UNCHANGED fakeVars

\* a mutant of PollCommit: a cycle that did not read every actuator ends the
\* thread (a return in place of the break)
PollCommitExitOnFailure ==
    /\ pollPc = "commit"
    /\ IF read_success
       THEN /\ joint_angles' = temp_angles
            /\ lastCommitted' = temp_angles
            /\ pollPc' = "while"
       ELSE /\ UNCHANGED <<joint_angles, lastCommitted>>
            /\ pollPc' = "exited"
    /\ port_lock' = "free"
    /\ UNCHANGED <<portOpen, stop_thread, torque_enabled, pollI, temp_angles,
                   read_success, cycle, cycleReads>>
    /\ UNCHANGED ctrlVars
    /\ UNCHANGED sessVars
    /\ UNCHANGED fakeVars

\* if read_success: self._joint_angles = temp_angles; the lock is released and
\* the thread sleeps 0.02 s
PollCommit ==
    /\ pollPc = "commit"
    /\ IF read_success
       THEN /\ joint_angles' = temp_angles
            /\ lastCommitted' = temp_angles
       ELSE UNCHANGED <<joint_angles, lastCommitted>>
    /\ port_lock' = "free"
    /\ pollPc' = "while"
    /\ UNCHANGED <<portOpen, stop_thread, torque_enabled, pollI, temp_angles,
                   read_success, cycle, cycleReads>>
    /\ UNCHANGED ctrlVars
    /\ UNCHANGED sessVars
    /\ UNCHANGED fakeVars

\* ---- the control thread inside the driver
\* write4ByteTxRx(portHandler, dxl_id, ADDR_GOAL_POSITION, position_value) for
\* the i-th actuator of a set_joints(arg); flag records the torque flag then
GoalWrite(i, arg) ==
    [id |-> JOINT_IDS[i], addr |-> ADDR_GOAL_POSITION,
     value |-> GoalTick(arg[i]), flag |-> torque_enabled]

\* write1ByteTxRx(portHandler, dxl_id, ADDR_TORQUE_ENABLE, torque_value) for the
\* i-th actuator of a set_torque_mode(enable)
TorqueWrite(i, enable) ==
    [id |-> JOINT_IDS[i], addr |-> ADDR_TORQUE_ENABLE,
     value |-> IF enable THEN TORQUE_ENABLE ELSE TORQUE_DISABLE,
     flag |-> torque_enabled]

hwVars == <<portOpen, stop_thread, torque_enabled, joint_angles, lastCommitted>>

\* a mutant of CallSetJoints: the torque flag is not consulted
CallSetJointsNoGuard ==
    /\ ctrlPc = "idle"
    /\ opsDone < MaxOps
    /\ \E arg \in SetJointsArgs :
         /\ ctrlPc' = "sj_lock"
         /\ sjArg' = arg
    /\ opsDone' = opsDone + 1
    /\ lastCall' = "set_joints"
    /\ UNCHANGED <<ctrlI, tmArg, closing, txLog, writeOk, gjRet, port_lock>>
    /\ UNCHANGED hwVars
    /\ UNCHANGED pollerVars
    /\ UNCHANGED sessVars
    /\ UNCHANGED fakeVars

\* set_joints(joint_angles): "if not self._torque_enabled: return"
CallSetJoints ==
    /\ ctrlPc = "idle"
    /\ opsDone < MaxOps
    /\ \E arg \in SetJointsArgs :
         IF torque_enabled
         THEN /\ ctrlPc' = "sj_lock"
              /\ sjArg' = arg
         ELSE UNCHANGED <<ctrlPc, sjArg>>
    /\ opsDone' = opsDone + 1
    /\ lastCall' = "set_joints"
    /\ UNCHANGED <<ctrlI, tmArg, closing, txLog, writeOk, gjRet, port_lock>>
    /\ UNCHANGED hwVars
    /\ UNCHANGED pollerVars
    /\ UNCHANGED sessVars
    /\ UNCHANGED fakeVars

\* a mutant of SjAcquire: the write loop runs without taking the lock
SjAcquireNoLock ==
    /\ ctrlPc = "sj_lock"
    /\ ctrlPc' = "sj_write"
    /\ ctrlI' = 1
    /\ txLog' = <<>>
    /\ UNCHANGED <<sjArg, tmArg, closing, opsDone, lastCall, writeOk, gjRet,
                   port_lock>>
    /\ UNCHANGED hwVars
    /\ UNCHANGED pollerVars
    /\ UNCHANGED sessVars
    /\ UNCHANGED fakeVars

\* set_joints: "with self._port_lock:"
SjAcquire ==
    /\ ctrlPc = "sj_lock"
    /\ port_lock = "free"
    /\ port_lock' = "ctrl"
    /\ ctrlPc' = "sj_write"
    /\ ctrlI' = 1
    /\ txLog' = <<>>
    /\ UNCHANGED <<sjArg, tmArg, closing, opsDone, lastCall, writeOk, gjRet>>
    /\ UNCHANGED hwVars
    /\ UNCHANGED pollerVars
    /\ UNCHANGED sessVars
    /\ UNCHANGED fakeVars

\* a mutant of SjWrite: a write that returns a failure status ends the loop
SjWriteStopOnFailure ==
    /\ ctrlPc = "sj_write"
    /\ \E ok \in BOOLEAN :
         /\ writeOk' = ok
         /\ txLog' = Append(txLog, GoalWrite(ctrlI, sjArg))
         /\ IF ctrlI = N \/ ~ok
            THEN /\ ctrlPc' = "idle"
                 /\ port_lock' = "free"
                 /\ ctrlI' = 1
            ELSE /\ ctrlI' = ctrlI + 1
                 /\ UNCHANGED <<ctrlPc, port_lock>>
    /\ UNCHANGED <<sjArg, tmArg, closing, opsDone, lastCall, gjRet>>
    /\ UNCHANGED hwVars
    /\ UNCHANGED pollerVars
    /\ UNCHANGED sessVars
    /\ UNCHANGED fakeVars

\* one iteration of set_joints' loop: the goal tick of actuator ctrlI is
\* computed, clamped and written; the status write4ByteTxRx returns is not
\* looked at.  After the last actuator the lock is released.
SjWrite ==
    /\ ctrlPc = "sj_write"
    /\ \E ok \in BOOLEAN : writeOk' = ok
    /\ txLog' = Append(txLog, GoalWrite(ctrlI, sjArg))
    /\ IF ctrlI = N
       THEN /\ ctrlPc' = "idle"
            /\ port_lock' = "free"
            /\ ctrlI' = 1
       ELSE /\ ctrlI' = ctrlI + 1
            /\ UNCHANGED <<ctrlPc, port_lock>>
    /\ UNCHANGED <<sjArg, tmArg, closing, opsDone, lastCall, gjRet>>
    /\ UNCHANGED hwVars
    /\ UNCHANGED pollerVars
    /\ UNCHANGED sessVars
    /\ UNCHANGED fakeVars

\* set_torque_mode(enable)
CallSetTorque ==
    /\ ctrlPc = "idle"
    /\ opsDone < MaxOps
    /\ \E enable \in BOOLEAN : tmArg' = enable
    /\ ctrlPc' = "tm_lock"
    /\ opsDone' = opsDone + 1
    /\ lastCall' = "set_torque_mode"
    /\ UNCHANGED <<ctrlI, sjArg, closing, txLog, writeOk, gjRet, port_lock>>
    /\ UNCHANGED hwVars
    /\ UNCHANGED pollerVars
    /\ UNCHANGED sessVars
    /\ UNCHANGED fakeVars

\* set_torque_mode: "with self._port_lock:"
TmAcquire ==
    /\ ctrlPc = "tm_lock"
    /\ port_lock = "free"
    /\ port_lock' = "ctrl"
    /\ ctrlPc' = "tm_write"
    /\ ctrlI' = 1
    /\ txLog' = <<>>
    /\ UNCHANGED <<sjArg, tmArg, closing, opsDone, lastCall, writeOk, gjRet>>
    /\ UNCHANGED hwVars
    /\ UNCHANGED pollerVars
    /\ UNCHANGED sessVars
    /\ UNCHANGED fakeVars

\* one iteration of set_torque_mode's loop; after the last actuator the lock
\* is released
TmWrite ==
    /\ ctrlPc = "tm_write"
    /\ \E ok \in BOOLEAN : writeOk' = ok
    /\ txLog' = Append(txLog, TorqueWrite(ctrlI, tmArg))
    /\ IF ctrlI = N
       THEN /\ ctrlPc' = "tm_flag"
            /\ port_lock' = "free"
            /\ ctrlI' = 1
       ELSE /\ ctrlI' = ctrlI + 1
            /\ UNCHANGED <<ctrlPc, port_lock>>
    /\ UNCHANGED <<sjArg, tmArg, closing, opsDone, lastCall, gjRet>>
    /\ UNCHANGED hwVars
    /\ UNCHANGED pollerVars
    /\ UNCHANGED sessVars
    /\ UNCHANGED fakeVars

\* set_torque_mode: "self._torque_enabled = enable", outside the lock; inside
\* close() the next statement is closePort()
TmFlag ==
    /\ ctrlPc = "tm_flag"
    /\ torque_enabled' = tmArg
    /\ ctrlPc' = IF closing THEN "cl_port" ELSE "idle"
    /\ UNCHANGED <<ctrlI, sjArg, tmArg, closing, opsDone, lastCall, txLog,
                   writeOk, gjRet,
                   port_lock>>
    /\ UNCHANGED <<portOpen, stop_thread, joint_angles, lastCommitted>>
    /\ UNCHANGED pollerVars
    /\ UNCHANGED sessVars
    /\ UNCHANGED fakeVars

\* get_joints()
CallGetJoints ==
    /\ ctrlPc = "idle"
    /\ opsDone < MaxOps
    /\ ctrlPc' = "gj_lock"
    /\ opsDone' = opsDone + 1
    /\ lastCall' = "get_joints"
    /\ UNCHANGED <<ctrlI, sjArg, tmArg, closing, txLog, writeOk, gjRet,
                   port_lock>>
    /\ UNCHANGED hwVars
    /\ UNCHANGED pollerVars
    /\ UNCHANGED sessVars
    /\ UNCHANGED fakeVars

\* get_joints: the cache is copied under the lock, the lock released, and the
\* copy converted to radians and returned
GjCopy ==
    /\ ctrlPc = "gj_lock"
    /\ port_lock = "free"
    /\ gjRet' = [i \in Joints |-> TickToRad(joint_angles[i])]
    /\ ctrlPc' = "idle"
    /\ UNCHANGED <<ctrlI, sjArg, tmArg, closing, opsDone, lastCall, txLog,
                   writeOk, port_lock>>
    /\ UNCHANGED hwVars
    /\ UNCHANGED pollerVars
    /\ UNCHANGED sessVars
    /\ UNCHANGED fakeVars

\* close(): the stop flag is set, then "if is_alive(): join(timeout=1.0)"
CallClose ==
    /\ ctrlPc = "idle"
    /\ ~closing
    /\ closing' = TRUE
    /\ stop_thread' = TRUE
    /\ ctrlPc' = "cl_join"
    /\ lastCall' = "close"
    /\ UNCHANGED <<ctrlI, sjArg, tmArg, opsDone, txLog, writeOk, gjRet,
                   port_lock>>
    /\ UNCHANGED <<portOpen, torque_enabled, joint_angles, lastCommitted>>
    /\ UNCHANGED pollerVars
    /\ UNCHANGED sessVars
    /\ UNCHANGED fakeVars

\* close(): join returns when the poller has ended or when the timeout of
\* 1.0 s expires, whichever is first, so the step is enabled wherever the
\* poller is; then set_torque_mode(False) is called
ClJoin ==
    /\ ctrlPc = "cl_join"
    /\ tmArg' = FALSE
    /\ ctrlPc' = "tm_lock"
    /\ UNCHANGED <<ctrlI, sjArg, closing, opsDone, lastCall, txLog, writeOk,
                   gjRet, port_lock>>
    /\ UNCHANGED hwVars
    /\ UNCHANGED pollerVars
    /\ UNCHANGED sessVars
    /\ UNCHANGED fakeVars

\* close(): self._portHandler.closePort()
ClPort ==
    /\ ctrlPc = "cl_port"
    /\ portOpen' = FALSE
    /\ ctrlPc' = "closed"
    /\ UNCHANGED <<ctrlI, sjArg, tmArg, closing, opsDone, lastCall, txLog,
                   writeOk, gjRet,
                   port_lock>>
    /\ UNCHANGED <<stop_thread, torque_enabled, joint_angles, lastCommitted>>
    /\ UNCHANGED pollerVars
    /\ UNCHANGED sessVars
    /\ UNCHANGED fakeVars

Init == DriverInit /\ SessIdle /\ FakeIdle

Next ==
    \/ PollWhile
    \/ PollAcquire
    \/ PollTxRx
    \/ PollRead
    \/ PollCommit
    \/ CallSetJoints
    \/ SjAcquire
    \/ SjWrite
    \/ CallSetTorque
    \/ TmAcquire
    \/ TmWrite
    \/ TmFlag
    \/ CallGetJoints
    \/ GjCopy
    \/ CallClose
    \/ ClJoin
    \/ ClPort

\* the driver with its poller thread and one control thread
Spec == Init /\ [][Next]_vars

\* ------------------------------------------------------- driver properties
\* the poller is inside its "with self._port_lock:" block
PollerOnBus == pollPc \in {"txrx", "read", "commit"}

\* the control thread is inside the write loop of set_joints or set_torque_mode
CtrlOnBus == ctrlPc \in {"sj_write", "tm_write"}

\* the cache converted as get_joints converts it
CacheInRadians(cache) == [i \in Joints |-> TickToRad(cache[i])]

\* C1: at most one logical bus operation is in progress: the poller's bulk
\* read and the write sequence of set_joints or of set_torque_mode never
\* overlap, and whichever is in progress holds the port lock.
C1_OneBusOperation ==
    /\ ~(PollerOnBus /\ CtrlOnBus)
    /\ PollerOnBus => port_lock = "poller"
    /\ CtrlOnBus => port_lock = "ctrl"

\* set_joints is between two of its writes while the poller waits for the lock
C1_Witness ==
    /\ ctrlPc = "sj_write"
    /\ ctrlI = 2
    /\ pollPc = "lock"

\* C2: whenever get_joints returns, its value is the conversion of the vector
\* stored by the last completed, fully successful poll cycle (the initial
\* cache if there is none), never a mix with a failed or unfinished cycle.
C2_GetJointsCompletedCycle ==
    [][(ctrlPc = "gj_lock" /\ ctrlPc' = "idle")
         => gjRet' = CacheInRadians(lastCommitted)]_vars

\* get_joints has returned the readings of a successful cycle although a later
\* cycle read part of the actuators and then failed
C2_Witness ==
    /\ lastCall = "get_joints"
    /\ ctrlPc = "idle"
    /\ gjRet = CacheInRadians(joint_angles)
    /\ joint_angles # ZeroVec
    /\ pollPc = "while"
    /\ ~read_success
    /\ Len(cycleReads) >= 1
    /\ temp_angles # joint_angles

\* C3 (as claimed): a get_joints caller is never waiting while a bus
\* transaction (the poller's bulk read, or a register write sequence) is in
\* progress.
C3_GetJointsNeverWaits ==
    ~(ctrlPc = "gj_lock" /\ (PollerOnBus \/ CtrlOnBus))

\* C4: the cache changes only in the commit step of a cycle in which every
\* actuator's data was available, and that step stores exactly this cycle's
\* N readings; a cycle that ends otherwise leaves the cache as it was.
C4_CacheReplaceOnSuccess ==
    [][/\ joint_angles' # joint_angles
            => pollPc = "commit" /\ read_success /\ Len(cycleReads) = N
       /\ (pollPc = "commit" /\ pollPc' # "commit" /\ Len(cycleReads) = N)
            => joint_angles' = cycleReads
       /\ (PollerOnBus /\ ~PollerOnBus' /\ Len(cycleReads) < N)
            => joint_angles' = joint_angles]_vars

\* after a successful cycle, a cycle has read some actuators, found one
\* unavailable and ended, and the cache still holds the earlier readings
C4_Witness ==
    /\ pollPc = "while"
    /\ cycle = 2
    /\ ~read_success
    /\ Len(cycleReads) \in 1..(N - 1)
    /\ joint_angles # ZeroVec
    /\ temp_angles # joint_angles

\* C9: a set_joints call made while the torque flag is false changes nothing
\* in the driver and writes no register; every goal-position write happens
\* with the flag true.
C9_SetJointsNoOpWithoutTorque ==
    [][/\ (lastCall' = "set_joints" /\ opsDone' = opsDone + 1 /\ ~torque_enabled)
            => UNCHANGED <<port_lock, portOpen, stop_thread, torque_enabled,
                           joint_angles, ctrlPc, ctrlI, txLog, writeOk, gjRet>>
       /\ (Len(txLog') > Len(txLog)
             /\ txLog'[Len(txLog')].addr = ADDR_GOAL_POSITION)
            => torque_enabled]_vars

\* set_joints was called with torque disabled and returned at once
C9_Witness ==
    /\ lastCall = "set_joints"
    /\ ~torque_enabled
    /\ ctrlPc = "idle"
    /\ opsDone = 2
    /\ txLog # <<>>
    /\ \A k \in DOMAIN txLog : txLog[k].addr = ADDR_TORQUE_ENABLE

\* C10: every goal-position value set_joints writes lies in 0..4095, and a
\* call with out-of-range angles still writes all N actuators.
C10_GoalTickInHardwareRange ==
    /\ \A k \in DOMAIN txLog :
         txLog[k].addr = ADDR_GOAL_POSITION => txLog[k].value \in 0..4095
    /\ (lastCall = "set_joints" /\ ctrlPc = "idle" /\ txLog # <<>>
          /\ txLog[1].addr = ADDR_GOAL_POSITION)
         => Len(txLog) = N

\* a completed set_joints whose first angle is above and whose second is below
\* the hardware range: 4095 and 0 were written
C10_Witness ==
    /\ lastCall = "set_joints"
    /\ ctrlPc = "idle"
    /\ Len(txLog) = N
    /\ txLog[1].addr = ADDR_GOAL_POSITION
    /\ GoalTickRaw(sjArg[1]) > 4095 /\ txLog[1].value = 4095
    /\ GoalTickRaw(sjArg[2]) < 0 /\ txLog[2].value = 0

\* the actuator IDs of the writes in a log, in the order written
LogIds(log) == [k \in DOMAIN log |-> log[k].id]

\* C11: in a set_joints call made with torque enabled, each step of the write
\* loop attempts one goal-position write, for the next actuator of the ID list;
\* whatever status a write returns, the loop goes on to the next actuator; and
\* when the call returns, the writes attempted are one per actuator, in the
\* order of the ID list, none repeated.
C11_OneWritePerActuator ==
    [][/\ (ctrlPc = "sj_write" /\ txLog' # txLog)
            => /\ txLog' = Append(txLog, txLog'[Len(txLog')])
               /\ txLog'[Len(txLog')].addr = ADDR_GOAL_POSITION
               /\ LogIds(txLog') = SubSeq(JOINT_IDS, 1, Len(txLog'))
               /\ Len(txLog') < N => ctrlPc' = "sj_write"
       /\ (ctrlPc = "sj_write" /\ ctrlPc' # "sj_write")
            => LogIds(txLog') = JOINT_IDS]_vars

\* the write to the second actuator has returned a failure status and the
\* loop is at the third actuator, the lock still held
C11_Witness ==
    /\ ctrlPc = "sj_write"
    /\ ctrlI = N
    /\ ~writeOk
    /\ torque_enabled
    /\ LogIds(txLog) = SubSeq(JOINT_IDS, 1, N - 1)
    /\ port_lock = "ctrl"

\* ------------------------------------------------------------ DynamixelRobot
\* joint_offsets=None: np.zeros(len(joint_ids))
joint_offsets == ZeroVec

\* get_joint_state on a cache: wrap_to_pi((pos_from_driver - offsets) * signs)
get_joint_state(cache) ==
    [i \in Joints |->
       wrap_to_pi((TickToRad(cache[i]) - joint_offsets[i]) * JOINT_SIGNS[i])]

\* set_value of command_joint_state: wrap_to_pi(joint_state * signs + offsets)
SetValue(joint_state) ==
    [i \in Joints |->
       wrap_to_pi(joint_state[i] * JOINT_SIGNS[i] + joint_offsets[i])]

\* command_joint_state(joint_state), issued in control state phase: the
\* driver's set_joints writes the goal ticks if the torque flag is set
command_joint_state(joint_state, phase) ==
    /\ cmd' = joint_state
    /\ cmdPhase' = phase
    /\ anyCmd' = TRUE
    /\ txLog' = IF torque_enabled
                THEN [i \in Joints |-> GoalWrite(i, SetValue(joint_state))]
                ELSE txLog

\* no command_joint_state in this step
NoCommand ==
    /\ cmd' = NoCmd
    /\ cmdPhase' = "none"
    /\ UNCHANGED <<anyCmd, txLog>>

\* DynamixelRobot.set_torque_mode(mode): nothing if the mode is already set,
\* else the driver writes the torque register of every actuator
RobotSetTorque(mode) ==
    IF mode = robot_torque_on
    THEN UNCHANGED <<robot_torque_on, torque_enabled, txLog>>
    ELSE /\ robot_torque_on' = mode
         /\ torque_enabled' = mode
         /\ txLog' = [i \in Joints |-> TorqueWrite(i, mode)]

\* ------------------------------------- DynamixelRobot over FakeDynamixelDriver
\* joint_signs arguments: every vector of -1 and +1
SignVecs == [Joints -> {-1, 1}]

\* joint_offsets arguments: none, fractions of a turn, and multiples of pi
OffsetVecs ==
    { ZeroVec, <<RadC(30), -RadC(30), Pi>>, <<-Pi, 2 * Pi + 1, -1>>,
      <<Pi - 1, 1, 3 * Pi>> }

\* joint_state arguments: inside [-pi, pi), on its two ends, and turns away
FakeArgs ==
    { ZeroVec, <<Pi, -Pi, Pi - 1>>, <<3 * Pi, -3 * Pi, -Pi - 1>>,
      <<RadC(100), -RadC(250), 2 * Pi>>, <<Pi + 1, -Pi + 1, 1>>,
      <<-1, 5 * Pi + 7, -2 * Pi>> }

\* set_value of command_joint_state for a robot with the given signs and
\* offsets: wrap_to_pi(joint_state * signs + offsets)
RobotSetValue(joint_state, signs, offsets) ==
    [i \in Joints |-> wrap_to_pi(joint_state[i] * signs[i] + offsets[i])]

\* a mutant of RobotJointState: the signs are not applied on the way back
RobotJointStateNoSigns(pos_from_driver, signs, offsets) ==
    [i \in Joints |-> wrap_to_pi(pos_from_driver[i] - offsets[i])]

\* get_joint_state for such a robot: wrap_to_pi((pos_from_driver - offsets) * signs)
RobotJointState(pos_from_driver, signs, offsets) ==
    [i \in Joints |-> wrap_to_pi((pos_from_driver[i] - offsets[i]) * signs[i])]

\* FakeDynamixelDriver.set_joints: self._joint_angles = np.array(joint_angles);
\* the array replaces the integer zeros of __init__ and is stored whatever the
\* torque flag
FakeSetJoints(angles) == [i \in Joints |-> angles[i]]

\* DynamixelRobot(joint_ids, joint_offsets, joint_signs, real=False)
InitFake ==
    /\ DriverState(FALSE)
    /\ SessIdle
    /\ fake_signs \in SignVecs
    /\ fake_offsets \in OffsetVecs
    /\ fake_joint_angles = ZeroVec
    /\ fake_cmd = ZeroVec
    /\ fake_ret = ZeroVec
    /\ fakePc = "idle"

\* robot.command_joint_state(v) on the fake driver
FakeCommand ==
    /\ \E v \in FakeArgs :
         /\ fake_cmd' = v
         /\ fake_joint_angles' =
              FakeSetJoints(RobotSetValue(v, fake_signs, fake_offsets))
    /\ fakePc' = "commanded"
    /\ UNCHANGED <<fake_signs, fake_offsets, fake_ret>>
    /\ UNCHANGED <<driverVars, sessVars>>

\* robot.get_joint_state() on the fake driver, whose get_joints returns a copy
\* of the stored array
FakeGet ==
    /\ fake_ret' = RobotJointState(fake_joint_angles, fake_signs, fake_offsets)
    /\ fakePc' = IF fakePc = "commanded" THEN "read" ELSE "idle"
    /\ UNCHANGED <<fake_signs, fake_offsets, fake_joint_angles, fake_cmd>>
    /\ UNCHANGED <<driverVars, sessVars>>

NextFake ==
    \/ FakeCommand
    \/ FakeGet

\* a robot over the fake driver, for every construction drawn by InitFake
SpecFake == InitFake /\ [][NextFake]_vars

\* C22: with the fake driver, get_joint_state() called right after
\* command_joint_state(v) returns wrap_to_pi(v) element-wise, for every joint
\* vector v, every sign vector of -1 and +1 and every offset vector
C22_FakeRoundTrip ==
    fakePc = "read" => fake_ret = [i \in Joints |-> wrap_to_pi(fake_cmd[i])]

\* a round trip through a joint with sign -1 and an offset, whose set value
\* had to be wrapped
C22_Witness ==
    /\ fakePc = "read"
    /\ \E i \in Joints :
         /\ fake_signs[i] = -1
         /\ fake_offsets[i] # 0
         /\ fake_cmd[i] * fake_signs[i] + fake_offsets[i] # fake_joint_angles[i]
         /\ fake_ret[i] # fake_cmd[i]

LR_STEP_SIZE == RadC(25)
UD_STEP_SIZE == RadC(30)
LR_LIMITS_RAD == <<RadC(-314) + LR_STEP_SIZE, RadC(314) - LR_STEP_SIZE>>
ID1_LIMITS_RAD == <<RadC(-286), RadC(-31)>>
ID3_LIMITS_RAD == <<RadC(37), RadC(291)>>

\* the limit pair of each joint index
KbLimits == <<LR_LIMITS_RAD, ID1_LIMITS_RAD, ID3_LIMITS_RAD>>

\* lim[0] <= x <= lim[1]
InRange(lim, x) == lim[1] <= x /\ x <= lim[2]

\* raw tick vectors a poll cycle may store.  Per joint: a mid-range position
\* (2048, 1070, 1070), one less than a step from a limit (3900, 250, 250) and
\* one outside the limits (4000, 2048, 2048)
TickVecs ==
    { <<2048, 1070, 1070>>, <<3900, 250, 250>>, <<2048, 1070, 250>>,
      <<4000, 1070, 1070>>, <<2048, 2048, 1070>>, <<2048, 1070, 2048>>,
      <<4000, 1070, 2048>>, <<4000, 2048, 2048>> }

\* the driver's variables a session step does not touch
driverRest ==
    <<port_lock, pollPc, pollI, temp_angles, read_success, cycle, cycleReads,
      ctrlPc, ctrlI, sjArg, tmArg, closing, opsDone, lastCall, writeOk, gjRet>>

\* a mutant of StartViolations: the three tests chained with elif
StartViolationsFirstOnly(pos) ==
    IF ~InRange(LR_LIMITS_RAD, pos[1]) THEN {1}
    ELSE IF ~InRange(ID1_LIMITS_RAD, pos[2]) THEN {2}
    ELSE IF ~InRange(ID3_LIMITS_RAD, pos[3]) THEN {3}
    ELSE {}

\* the startup safety check: three independent tests, each printing its joint
StartViolations(pos) ==
    (IF ~InRange(LR_LIMITS_RAD, pos[1]) THEN {1} ELSE {})
      \cup (IF ~InRange(ID1_LIMITS_RAD, pos[2]) THEN {2} ELSE {})
      \cup (IF ~InRange(ID3_LIMITS_RAD, pos[3]) THEN {3} ELSE {})

\* a mutant of NextAbsolute: the left and right keys are exchanged
NextAbsoluteSwapped(current, lr, ud) ==
    LET dlr == IF lr = "left" THEN LR_STEP_SIZE
               ELSE IF lr = "right" THEN -LR_STEP_SIZE ELSE 0
        dud == IF ud = "up" THEN UD_STEP_SIZE
               ELSE IF ud = "down" THEN -UD_STEP_SIZE ELSE 0
    IN  <<current[1] + dlr, current[2] + dud, current[3] + dud>>

\* next_absolute_position: the feedback plus the key steps
NextAbsolute(current, lr, ud) ==
    LET dlr == IF lr = "right" THEN LR_STEP_SIZE
               ELSE IF lr = "left" THEN -LR_STEP_SIZE ELSE 0
        dud == IF ud = "up" THEN UD_STEP_SIZE
               ELSE IF ud = "down" THEN -UD_STEP_SIZE ELSE 0
    IN  <<current[1] + dlr, current[2] + dud, current[3] + dud>>

\* a mutant of FinalCommand: the candidate clipped to the limits (np.clip)
FinalCommandClip(current, next) ==
    [i \in Joints |-> Max2(KbLimits[i][1], Min2(KbLimits[i][2], next[i]))]

\* final_command: per joint the candidate if it is within the limits, else the
\* current value
FinalCommand(current, next) ==
    [i \in Joints |->
       IF InRange(KbLimits[i], next[i]) THEN next[i] ELSE current[i]]

\* the poller thread of the session's driver is running: the constructor has
\* started it (the session is past a successful construction and has not
\* returned) and close() has not stopped it
PollerRunning ==
    /\ sessPc \in {"torque_on", "homing", "check", "active", "finally", "ramp",
                   "final_cmd", "torque_off", "close"}
    /\ ~stop_thread
    /\ portOpen

\* a successful poll cycle of the background thread, seen from the session:
\* the cache is replaced by freshly read ticks
SessPoll ==
    /\ PollerRunning
    /\ \E v \in TickVecs :
         /\ v # joint_angles
         /\ joint_angles' = v
         /\ lastCommitted' = v
    /\ UNCHANGED <<portOpen, stop_thread, torque_enabled, txLog>>
    /\ UNCHANGED driverRest
    /\ UNCHANGED sessVars
    /\ UNCHANGED fakeVars

\* robot = DynamixelRobot(...): the driver's constructor opens the port, sets
\* the baud rate and registers the actuators; a failure of any step raises and
\* main returns
KbConstruct ==
    /\ sessPc = "init"
    /\ \E step \in {"ok", "openPort", "setBaudRate", "addParam"} :
         /\ portOpen' = (step # "openPort")
         /\ sessPc' = IF step = "ok" THEN "torque_on" ELSE "failed"
    /\ UNCHANGED <<stop_thread, torque_enabled, joint_angles, lastCommitted,
                   txLog>>
    /\ UNCHANGED driverRest
    /\ UNCHANGED questVars
    /\ UNCHANGED fakeVars
    /\ UNCHANGED <<robot_torque_on, home_position, reported, keyLR, keyUD,
                   current_pos, rampPass, cmd, cmdPhase, anyCmd>>

\* robot.set_torque_mode(True)
KbTorqueOn ==
    /\ sessPc = "torque_on"
    /\ RobotSetTorque(TRUE)
    /\ sessPc' = "homing"
    /\ UNCHANGED <<portOpen, stop_thread, joint_angles, lastCommitted>>
    /\ UNCHANGED driverRest
    /\ UNCHANGED questVars
    /\ UNCHANGED fakeVars
    /\ UNCHANGED <<home_position, reported, keyLR, keyUD, current_pos,
                   rampPass, cmd, cmdPhase, anyCmd>>

\* an exception out of robot.set_torque_mode(True): the call is outside every
\* try statement, so a serial error of the bus write (or a KeyboardInterrupt)
\* ends main there
KbStartupError ==
    /\ sessPc = "torque_on"
    /\ sessPc' = "failed"
    /\ UNCHANGED <<portOpen, stop_thread, torque_enabled, joint_angles,
                   lastCommitted, txLog>>
    /\ UNCHANGED driverRest
    /\ UNCHANGED questVars
    /\ UNCHANGED fakeVars
    /\ UNCHANGED <<robot_torque_on, home_position, reported, keyLR, keyUD,
                   current_pos, rampPass, cmd, cmdPhase, anyCmd>>

\* home_position = robot.get_joint_state()
KbHoming ==
    /\ sessPc = "homing"
    /\ home_position' = get_joint_state(joint_angles)
    /\ sessPc' = "check"
    /\ UNCHANGED <<portOpen, stop_thread, torque_enabled, joint_angles,
                   lastCommitted, txLog>>
    /\ UNCHANGED driverRest
    /\ UNCHANGED questVars
    /\ UNCHANGED fakeVars
    /\ UNCHANGED <<robot_torque_on, reported, keyLR, keyUD, current_pos,
                   rampPass, cmd, cmdPhase, anyCmd>>

\* a mutant of KbSafetyCheck: the result of the check is not acted on
KbSafetyCheckIgnored ==
    /\ sessPc = "check"
    /\ reported' = StartViolations(home_position)
    /\ sessPc' = "active"
    /\ UNCHANGED <<portOpen, stop_thread, torque_enabled, joint_angles,
                   lastCommitted, txLog>>
    /\ UNCHANGED driverRest
    /\ UNCHANGED questVars
    /\ UNCHANGED fakeVars
    /\ UNCHANGED <<robot_torque_on, home_position, keyLR, keyUD, current_pos,
                   rampPass, cmd, cmdPhase, anyCmd>>

\* the startup safety check: every joint outside its limits is printed, and
\* "if not safe_start" leads to torque off, close and return
KbSafetyCheck ==
    /\ sessPc = "check"
    /\ reported' = StartViolations(home_position)
    /\ sessPc' = IF reported' = {} THEN "active" ELSE "torque_off"
    /\ UNCHANGED <<portOpen, stop_thread, torque_enabled, joint_angles,
                   lastCommitted, txLog>>
    /\ UNCHANGED driverRest
    /\ UNCHANGED questVars
    /\ UNCHANGED fakeVars
    /\ UNCHANGED <<robot_torque_on, home_position, keyLR, keyUD, current_pos,
                   rampPass, cmd, cmdPhase, anyCmd>>

\* one pass of the "while True" loop: feedback, key steps, per-joint limit
\* test, then 'q' (break) or the command if anything moved
KbTick ==
    /\ sessPc = "active"
    /\ \E lr \in {"none", "left", "right"}, ud \in {"none", "up", "down"},
          q \in BOOLEAN :
         LET current == get_joint_state(joint_angles)
             final == FinalCommand(current, NextAbsolute(current, lr, ud))
         IN  /\ keyLR' = lr
             /\ keyUD' = ud
             /\ sessPc' = IF q THEN "finally" ELSE "active"
             /\ IF ~q /\ final # current
                THEN command_joint_state(final, "active")
                ELSE NoCommand
    /\ UNCHANGED <<portOpen, stop_thread, torque_enabled, joint_angles,
                   lastCommitted>>
    /\ UNCHANGED driverRest
    /\ UNCHANGED questVars
    /\ UNCHANGED fakeVars
    /\ UNCHANGED <<robot_torque_on, home_position, reported, current_pos,
                   rampPass>>

\* KeyboardInterrupt inside the loop
KbInterrupt ==
    /\ sessPc = "active"
    /\ sessPc' = "finally"
    /\ keyLR' = "none"
    /\ keyUD' = "none"
    /\ NoCommand
    /\ UNCHANGED <<portOpen, stop_thread, torque_enabled, joint_angles,
                   lastCommitted>>
    /\ UNCHANGED driverRest
    /\ UNCHANGED questVars
    /\ UNCHANGED fakeVars
    /\ UNCHANGED <<robot_torque_on, home_position, reported, current_pos,
                   rampPass>>

\* finally: current_pos = robot.get_joint_state()
KbFinally ==
    /\ sessPc = "finally"
    /\ current_pos' = get_joint_state(joint_angles)
    /\ UNCHANGED rampPass
    /\ sessPc' = "ramp"
    /\ keyLR' = "none"
    /\ keyUD' = "none"
    /\ NoCommand
    /\ UNCHANGED <<portOpen, stop_thread, torque_enabled, joint_angles,
                   lastCommitted>>
    /\ UNCHANGED driverRest
    /\ UNCHANGED questVars
    /\ UNCHANGED fakeVars
    /\ UNCHANGED <<robot_torque_on, home_position, reported>>

\* the sum of the squares of a vector's elements
NormSq(v) == v[1] * v[1] + v[2] * v[2] + v[3] * v[3]

\* the largest r in lo..hi with r * r <= n
SqrtBetween[n \in Nat, lo \in Nat, hi \in Nat] ==
    IF lo >= hi THEN lo
    ELSE LET mid == (lo + hi + 1) \div 2
         IN  IF mid * mid <= n THEN SqrtBetween[n, mid, hi]
             ELSE SqrtBetween[n, lo, mid - 1]

\* np.linalg.norm, to the unit below
Norm(v) == SqrtBetween[NormSq(v), 0, 46340]

\* a / b rounded to the nearest integer (b > 0)
RoundDiv(a, b) ==
    IF a >= 0 THEN (2 * a + b) \div (2 * b) ELSE -((2 * (-a) + b) \div (2 * b))

\* next_pos of the return-home loop: current_pos + direction / norm * UD_STEP_SIZE
RampNext(current, home) ==
    LET direction == [i \in Joints |-> home[i] - current[i]]
    IN  [i \in Joints |->
           current[i] + RoundDiv(direction[i] * UD_STEP_SIZE, Norm(direction))]

\* one test of "while np.linalg.norm(current_pos - home_position) >
\* UD_STEP_SIZE" and, if it holds, one pass of the loop
KbRamp ==
    /\ sessPc = "ramp"
    /\ IF NormSq([i \in Joints |-> current_pos[i] - home_position[i]])
            > UD_STEP_SIZE * UD_STEP_SIZE
       THEN /\ command_joint_state(RampNext(current_pos, home_position),
                                   "returning")
            /\ current_pos' = get_joint_state(joint_angles)
            /\ rampPass' = 1 - rampPass
            /\ UNCHANGED sessPc
       ELSE /\ NoCommand
            /\ sessPc' = "final_cmd"
            /\ UNCHANGED current_pos
            /\ rampPass' = 0
    /\ UNCHANGED <<portOpen, stop_thread, torque_enabled, joint_angles,
                   lastCommitted>>
    /\ UNCHANGED driverRest
    /\ UNCHANGED questVars
    /\ UNCHANGED fakeVars
    /\ UNCHANGED <<robot_torque_on, home_position, reported, keyLR, keyUD>>

\* a mutant of KbFinalCmd: the return-home loop is not followed by a command
\* of the home position
KbFinalCmdSkipped ==
    /\ sessPc = "final_cmd"
    /\ NoCommand
    /\ sessPc' = "torque_off"
    /\ UNCHANGED <<portOpen, stop_thread, torque_enabled, joint_angles,
                   lastCommitted>>
    /\ UNCHANGED driverRest
    /\ UNCHANGED questVars
    /\ UNCHANGED fakeVars
    /\ UNCHANGED <<robot_torque_on, home_position, reported, keyLR, keyUD,
                   current_pos, rampPass>>

\* robot.command_joint_state(home_position) after the loop
KbFinalCmd ==
    /\ sessPc = "final_cmd"
    /\ command_joint_state(home_position, "returning")
    /\ sessPc' = "torque_off"
    /\ UNCHANGED <<portOpen, stop_thread, torque_enabled, joint_angles,
                   lastCommitted>>
    /\ UNCHANGED driverRest
    /\ UNCHANGED questVars
    /\ UNCHANGED fakeVars
    /\ UNCHANGED <<robot_torque_on, home_position, reported, keyLR, keyUD,
                   current_pos, rampPass>>

\* robot.set_torque_mode(False), on the abort path and at the end of finally
KbTorqueOff ==
    /\ sessPc = "torque_off"
    /\ RobotSetTorque(FALSE)
    /\ sessPc' = "close"
    /\ cmd' = NoCmd
    /\ cmdPhase' = "none"
    /\ UNCHANGED <<portOpen, stop_thread, joint_angles, lastCommitted>>
    /\ UNCHANGED driverRest
    /\ UNCHANGED questVars
    /\ UNCHANGED fakeVars
    /\ UNCHANGED <<home_position, reported, keyLR, keyUD, current_pos,
                   rampPass, anyCmd>>

\* a mutant of KbClose: the port is left open
KbCloseNoPort ==
    /\ sessPc = "close"
    /\ stop_thread' = TRUE
    /\ torque_enabled' = FALSE
    /\ txLog' = [i \in Joints |-> TorqueWrite(i, FALSE)]
    /\ sessPc' = "done"
    /\ UNCHANGED <<portOpen, joint_angles, lastCommitted>>
    /\ UNCHANGED driverRest
    /\ UNCHANGED questVars
    /\ UNCHANGED fakeVars
    /\ UNCHANGED <<robot_torque_on, home_position, reported, keyLR, keyUD,
                   current_pos, rampPass, cmd, cmdPhase, anyCmd>>

\* robot.close(): the driver sets the stop flag, joins the poller, calls
\* set_torque_mode(False) and closes the port
KbClose ==
    /\ sessPc = "close"
    /\ stop_thread' = TRUE
    /\ torque_enabled' = FALSE
    /\ txLog' = [i \in Joints |-> TorqueWrite(i, FALSE)]
    /\ portOpen' = FALSE
    /\ sessPc' = "done"
    /\ UNCHANGED <<joint_angles, lastCommitted>>
    /\ UNCHANGED driverRest
    /\ UNCHANGED questVars
    /\ UNCHANGED fakeVars
    /\ UNCHANGED <<robot_torque_on, home_position, reported, keyLR, keyUD,
                   current_pos, rampPass, cmd, cmdPhase, anyCmd>>

\* before main() constructs the robot: the port is not open yet
InitKeyboard == DriverState(FALSE) /\ SessIdle /\ FakeIdle

NextKeyboard ==
    \/ SessPoll
    \/ KbConstruct
    \/ KbTorqueOn
    \/ KbStartupError
    \/ KbHoming
    \/ KbSafetyCheck
    \/ KbTick
    \/ KbInterrupt
    \/ KbFinally
    \/ KbRamp
    \/ KbFinalCmd
    \/ KbTorqueOff
    \/ KbClose

\* the keyboard session (Television_Keyboard_Code.py) over the driver
SpecKeyboard == InitKeyboard /\ [][NextKeyboard]_vars

\* ----------------------------------------------- keyboard session properties
\* the joints of a position that lie outside their limit range
OutOfRange(pos) == { i \in Joints : ~InRange(KbLimits[i], pos[i]) }

\* the home position has been captured
KbHomed == sessPc \notin {"init", "failed", "torque_on", "homing"}

\* the startup safety check has run
KbChecked == KbHomed /\ sessPc # "check"

\* C5 (as claimed): every joint vector passed to command_joint_state while
\* the session is Active has every joint inside its limit range.
C5_ActiveCommandsWithinLimits ==
    cmdPhase = "active" => OutOfRange(cmd) = {}

\* C6: a command issued by a keyboard tick carries, for each joint, the
\* candidate (feedback plus key step) if the candidate is inside the joint's
\* limits, and the feedback value of that joint otherwise.
C6_HoldCurrentOutsideLimits ==
    [][(sessPc = "active" /\ joint_angles' = joint_angles /\ cmd' # NoCmd)
         => LET current == get_joint_state(joint_angles)
                candidate == NextAbsolute(current, keyLR', keyUD')
            IN  \A i \in Joints :
                  cmd'[i] = IF InRange(KbLimits[i], candidate[i])
                            THEN candidate[i] ELSE current[i]]_vars

\* a tick with right and up pressed near the limits: the yaw joint and the
\* second pitch joint are held at the feedback (their candidates are out of
\* range), the first pitch joint carries its candidate
C6_Witness ==
    LET current == get_joint_state(joint_angles)
    IN  /\ cmdPhase = "active"
        /\ keyLR = "right"
        /\ keyUD = "up"
        /\ ~InRange(LR_LIMITS_RAD, current[1] + LR_STEP_SIZE)
        /\ ~InRange(ID3_LIMITS_RAD, current[3] + UD_STEP_SIZE)
        /\ cmd = <<current[1], current[2] + UD_STEP_SIZE, current[3]>>

\* C7: with a captured home position that has a joint outside its limits,
\* the keyboard session is never in the Active loop or beyond it, has issued
\* no joint command, and ends with torque disabled and the port closed.
C7_UnsafeHomeAborts ==
    (KbHomed /\ OutOfRange(home_position) # {})
      => /\ sessPc \in {"check", "torque_off", "close", "done"}
         /\ ~anyCmd
         /\ cmd = NoCmd
         /\ sessPc = "done" => (~torque_enabled /\ ~robot_torque_on /\ ~portOpen)

\* the session has ended after an unsafe home position
C7_Witness ==
    /\ sessPc = "done"
    /\ OutOfRange(home_position) # {}
    /\ ~torque_enabled
    /\ ~portOpen
    /\ \A k \in DOMAIN txLog : txLog[k].value = TORQUE_DISABLE

\* C8: the startup safety check reports exactly the joints whose home value
\* is outside its limit range.
C8_ReportsAllViolations ==
    KbChecked => reported = OutOfRange(home_position)

\* a start with the first and the third joint out of bounds and the second
\* within: both are reported
C8_Witness ==
    /\ KbChecked
    /\ reported = {1, 3}
    /\ InRange(ID1_LIMITS_RAD, home_position[2])

\* ------------------------------------------------- head-tracker session
YAW_SENSITIVITY == 1
PITCH_SENSITIVITY == -1
Q_LR_LIMITS_RAD == <<RadC(-290), RadC(290)>>

\* the lower and upper bounds handed to np.clip, per joint index
QuestLimits == <<Q_LR_LIMITS_RAD, ID1_LIMITS_RAD, ID3_LIMITS_RAD>>

\* STALE_DATA_TIMEOUT = 1.0 s, in half seconds
STALE_DATA_TIMEOUT == 2

\* m thousandths of a radian, in angle units, rounded to the nearest unit
RadM(m) == (m * Sub * 6519 + 5000) \div 10000

\* MIN_COMMAND_CHANGE = 0.005 rad
MIN_COMMAND_CHANGE == RadM(5)

\* the test movement of joint 0 (0.1 rad) and the distance above which the
\* movement counts as detected (0.05 rad)
TEST_STEP == RadC(10)
MOVEMENT_THRESHOLD == RadC(5)

\* range(50): the passes of the zero-point loop
ZeroTries == 50

\* datagrams: "pitch,yaw" with both fields numeric (ok, in tenths of a degree),
\* one whose first field is not a number (bad_pitch), and one whose first field
\* is a number and whose second is missing or not a number (bad_yaw)
OkData(p, y) == [kind |-> "ok", pitch |-> p, yaw |-> y]
BadPitch == [kind |-> "bad_pitch", pitch |-> 0, yaw |-> 0]
BadYaw(p) == [kind |-> "bad_yaw", pitch |-> p, yaw |-> 0]

\* the datagrams the headset side may send: two poses a tenth of a degree of
\* pitch apart, a pose with the yaw half a turn away, and two malformed records
Datagrams ==
    { OkData(100, 100), OkData(101, 100), OkData(100, 1900),
      BadPitch, BadYaw(125) }

\* raw tick vectors the cache may hold when the head-tracker session reads it:
\* a rest pose, and the rest pose with joint 0 moved by 52 ticks
QuestReads == { <<2048, 1070, 1070>>, <<2100, 1070, 1070>> }

\* raw tick vectors the cache may hold when the home position is captured:
\* those, and one with joint 1 at 0 rad, above ID1_LIMITS_RAD
QuestHomeReads == QuestReads \cup { <<2048, 2048, 1070>> }

\* (x + 180) % 360 - 180, in tenths of a degree
WrapDeg(x) == ((x + 1800) % 3600) - 1800

\* np.deg2rad of t tenths of a degree, in angle units
Deg2Rad(t) == RoundDiv(t * Pi, 1800)

\* a mutant of TargetPos: the pitch offset is subtracted from joint 2
TargetPosPitchMirrored(zero_pos, off) ==
    LET yaw_offset_rad == Deg2Rad(off[2]) * YAW_SENSITIVITY
        pitch_offset_rad == Deg2Rad(off[1]) * PITCH_SENSITIVITY
    IN  <<zero_pos[1] - yaw_offset_rad, zero_pos[2] + pitch_offset_rad,
          zero_pos[3] - pitch_offset_rad>>

\* target_pos: robot_zero_pos with the yaw offset subtracted from joint 0 and
\* the pitch offset added to joints 1 and 2; off is <<pitch, yaw>> in degrees
TargetPos(zero_pos, off) ==
    LET yaw_offset_rad == Deg2Rad(off[2]) * YAW_SENSITIVITY
        pitch_offset_rad == Deg2Rad(off[1]) * PITCH_SENSITIVITY
    IN  <<zero_pos[1] - yaw_offset_rad, zero_pos[2] + pitch_offset_rad,
          zero_pos[3] + pitch_offset_rad>>

\* np.clip(target_pos, lows, highs)
ClipToLimits(v) ==
    [i \in Joints |-> Max2(QuestLimits[i][1], Min2(QuestLimits[i][2], v[i]))]

\* final_command for the offsets off
QuestFinalCommand(zero_pos, off) == ClipToLimits(TargetPos(zero_pos, off))

\* the difference of two joint vectors
VecDiff(a, b) == [i \in Joints |-> a[i] - b[i]]

\* a mutant of FartherThan: any difference counts
Differs(a, b, d) == a # b

\* np.linalg.norm(a - b) > d
FartherThan(a, b, d) == NormSq(VecDiff(a, b)) > d * d

\* a mutant of Drain: the first datagram received is kept
DrainKeepFirst(queue, latest) ==
    IF queue = <<>> THEN latest ELSE Head(queue)

RECURSIVE Drain(_, _)
\* the inner "while True" of the loop: recvfrom until select reports nothing
\* ready, each datagram overwriting latest_data
Drain(queue, latest) ==
    IF queue = <<>> THEN latest ELSE Drain(Tail(queue), Head(queue))

\* the cache as the session finds it at a read: the readings v of the last
\* poll cycle completed before the read
Feedback(v) ==
    /\ joint_angles' = v
    /\ lastCommitted' = v

\* DynamixelDriver.close() as one step: stop flag, join, set_torque_mode(False),
\* closePort()
DriverClose ==
    /\ stop_thread' = TRUE
    /\ torque_enabled' = FALSE
    /\ txLog' = [i \in Joints |-> TorqueWrite(i, FALSE)]
    /\ portOpen' = FALSE

kbLocals == <<reported, keyLR, keyUD, current_pos, rampPass>>

\* robot.command_joint_state(joint_state) by the head-tracker session in
\* control state phase
Issue(joint_state, phase) ==
    /\ command_joint_state(joint_state, phase)
    /\ issued' = [by |-> phase, pos |-> joint_state]

\* a step of the head-tracker session without a joint command
NoIssue ==
    /\ NoCommand
    /\ UNCHANGED issued

\* robot = DynamixelRobot(...); an exception is printed and main returns
QConstruct ==
    /\ sessPc = "init"
    /\ \E step \in {"ok", "openPort", "setBaudRate", "addParam"} :
         /\ portOpen' = (step # "openPort")
         /\ sessPc' = IF step = "ok" THEN "q_torque_on" ELSE "failed"
    /\ UNCHANGED <<stop_thread, torque_enabled, joint_angles, lastCommitted,
                   txLog>>
    /\ UNCHANGED driverRest
    /\ UNCHANGED <<robot_torque_on, home_position, cmd, cmdPhase, anyCmd>>
    /\ UNCHANGED issued
    /\ UNCHANGED kbLocals
    /\ UNCHANGED fakeVars
    /\ UNCHANGED questLocals

\* robot.set_torque_mode(True)
QTorqueOn ==
    /\ sessPc = "q_torque_on"
    /\ RobotSetTorque(TRUE)
    /\ sessPc' = "q_homing"
    /\ UNCHANGED <<portOpen, stop_thread, joint_angles, lastCommitted>>
    /\ UNCHANGED driverRest
    /\ UNCHANGED <<home_position, cmd, cmdPhase, anyCmd>>
    /\ UNCHANGED issued
    /\ UNCHANGED kbLocals
    /\ UNCHANGED fakeVars
    /\ UNCHANGED questLocals

\* robot_zero_pos = robot.get_joint_state()
QHoming ==
    /\ sessPc = "q_homing"
    /\ \E v \in QuestHomeReads :
         /\ Feedback(v)
         /\ home_position' = get_joint_state(v)
    /\ sessPc' = "q_test_move"
    /\ UNCHANGED <<portOpen, stop_thread, torque_enabled, txLog>>
    /\ UNCHANGED driverRest
    /\ UNCHANGED <<robot_torque_on, cmd, cmdPhase, anyCmd>>
    /\ UNCHANGED issued
    /\ UNCHANGED kbLocals
    /\ UNCHANGED fakeVars
    /\ UNCHANGED questLocals

\* a mutant of QTestMove: test_pos is robot_zero_pos itself (no .copy()), so
\* "test_pos[0] += 0.1" also moves the home position
QTestMoveAliased ==
    /\ sessPc = "q_test_move"
    /\ Issue([home_position EXCEPT ![1] = @ + TEST_STEP], "startup")
    /\ home_position' = [home_position EXCEPT ![1] = @ + TEST_STEP]
    /\ sessPc' = "q_test_check"
    /\ UNCHANGED <<portOpen, stop_thread, torque_enabled, joint_angles,
                   lastCommitted>>
    /\ UNCHANGED driverRest
    /\ UNCHANGED robot_torque_on
    /\ UNCHANGED kbLocals
    /\ UNCHANGED fakeVars
    /\ UNCHANGED questLocals

\* test_pos[0] += 0.1; robot.command_joint_state(test_pos)
QTestMove ==
    /\ sessPc = "q_test_move"
    /\ Issue([home_position EXCEPT ![1] = @ + TEST_STEP], "startup")
    /\ sessPc' = "q_test_check"
    /\ UNCHANGED <<portOpen, stop_thread, torque_enabled, joint_angles,
                   lastCommitted>>
    /\ UNCHANGED driverRest
    /\ UNCHANGED <<robot_torque_on, home_position>>
    /\ UNCHANGED kbLocals
    /\ UNCHANGED fakeVars
    /\ UNCHANGED questLocals

\* actual_test_pos = robot.get_joint_state(); if the movement is detected the
\* robot is commanded back to robot_zero_pos; then the socket is bound
QTestCheck ==
    /\ sessPc = "q_test_check"
    /\ \E v \in QuestReads :
         /\ Feedback(v)
         /\ IF FartherThan(get_joint_state(v), home_position,
                           MOVEMENT_THRESHOLD)
            THEN Issue(home_position, "startup")
            ELSE NoIssue
    /\ sessPc' = "q_zero"
    /\ UNCHANGED <<portOpen, stop_thread, torque_enabled>>
    /\ UNCHANGED driverRest
    /\ UNCHANGED <<robot_torque_on, home_position>>
    /\ UNCHANGED kbLocals
    /\ UNCHANGED fakeVars
    /\ UNCHANGED questLocals

\* an exception raised inside the try statement of the startup by a call that
\* writes to the open bus (set_torque_mode(True), command_joint_state):
\* "except Exception" prints it and main returns
QStartupError ==
    /\ sessPc \in {"q_torque_on", "q_test_move", "q_test_check"}
    /\ sessPc' = "failed"
    /\ NoIssue
    /\ UNCHANGED <<portOpen, stop_thread, torque_enabled, joint_angles,
                   lastCommitted>>
    /\ UNCHANGED driverRest
    /\ UNCHANGED <<robot_torque_on, home_position>>
    /\ UNCHANGED kbLocals
    /\ UNCHANGED fakeVars
    /\ UNCHANGED questLocals

\* a datagram reaches the bound socket while the session is reading it
QArrive ==
    /\ sessPc \in {"q_zero", "q_active", "q_recv"}
    /\ Len(sock) < MaxQueue
    /\ \E d \in Datagrams : sock' = Append(sock, d)
    /\ NoIssue
    /\ UNCHANGED <<quest_zero, zeroIter, last_sent_command, age, offset_deg,
                   target_pos, drained,
                   latest_data>>
    /\ UNCHANGED <<sessPc, robot_torque_on, home_position>>
    /\ UNCHANGED kbLocals
    /\ UNCHANGED fakeVars
    /\ UNCHANGED <<portOpen, stop_thread, torque_enabled, joint_angles,
                   lastCommitted>>
    /\ UNCHANGED driverRest

\* half a second passes in the control loop
QClock ==
    /\ sessPc = "q_active"
    /\ age < MaxAge
    /\ age' = age + 1
    /\ NoIssue
    /\ UNCHANGED <<sock, quest_zero, zeroIter, last_sent_command, offset_deg,
                   target_pos, drained,
                   latest_data>>
    /\ UNCHANGED <<sessPc, robot_torque_on, home_position>>
    /\ UNCHANGED kbLocals
    /\ UNCHANGED fakeVars
    /\ UNCHANGED <<portOpen, stop_thread, torque_enabled, joint_angles,
                   lastCommitted>>
    /\ UNCHANGED driverRest

\* one pass of "for _ in range(50)": select waits 0.1 s; a ready datagram is
\* received and parsed.  float(values[0]) is assigned before values[1] is
\* looked at.  A parsed datagram ends the loop and the control loop starts
\* (last_command_time = time.time(), last_sent_command = robot_zero_pos; the
\* pass counter is not read again and is dropped); a parse error continues
\* with the next pass; after the last pass without a zero point the session
\* gives up.
QZeroStep ==
    /\ sessPc = "q_zero"
    /\ IF sock = <<>>
       THEN /\ zeroIter' = zeroIter + 1
            /\ sessPc' = IF zeroIter + 1 = ZeroTries THEN "q_nozero" ELSE "q_zero"
            /\ UNCHANGED <<sock, quest_zero, last_sent_command, age>>
       ELSE LET data == Head(sock)
            IN  /\ sock' = Tail(sock)
                /\ IF data.kind = "ok"
                   THEN /\ quest_zero' = <<data.pitch, data.yaw>>
                        /\ sessPc' = "q_active"
                        /\ last_sent_command' = home_position
                        /\ age' = 0
                        /\ zeroIter' = 0
                   ELSE /\ quest_zero' = IF data.kind = "bad_yaw"
                                         THEN <<data.pitch, quest_zero[2]>>
                                         ELSE quest_zero
                        /\ zeroIter' = zeroIter + 1
                        /\ sessPc' = IF zeroIter + 1 = ZeroTries
                                     THEN "q_nozero" ELSE "q_zero"
                        /\ UNCHANGED <<last_sent_command, age>>
    /\ NoIssue
    /\ UNCHANGED <<offset_deg, target_pos, drained, latest_data>>
    /\ UNCHANGED <<portOpen, stop_thread, torque_enabled, joint_angles,
                   lastCommitted>>
    /\ UNCHANGED driverRest
    /\ UNCHANGED <<robot_torque_on, home_position>>
    /\ UNCHANGED kbLocals
    /\ UNCHANGED fakeVars

\* a mutant of QNoZero: the socket is closed and main returns, the robot is
\* left as it is
QNoZeroSocketOnly ==
    /\ sessPc = "q_nozero"
    /\ sock' = <<>>
    /\ sessPc' = "done"
    /\ UNCHANGED <<portOpen, stop_thread, torque_enabled, txLog, joint_angles,
                   lastCommitted>>
    /\ UNCHANGED driverRest
    /\ UNCHANGED <<robot_torque_on, home_position, cmd, cmdPhase, anyCmd>>
    /\ UNCHANGED issued
    /\ UNCHANGED kbLocals
    /\ UNCHANGED fakeVars
    /\ UNCHANGED <<quest_zero, zeroIter, last_sent_command, age, offset_deg,
                   target_pos, drained,
                   latest_data>>

\* "if not initial_data_found": robot.close(), sock.close(), return
QNoZero ==
    /\ sessPc = "q_nozero"
    /\ DriverClose
    /\ sock' = <<>>
    /\ sessPc' = "done"
    /\ UNCHANGED <<joint_angles, lastCommitted>>
    /\ UNCHANGED driverRest
    /\ UNCHANGED <<robot_torque_on, home_position, cmd, cmdPhase, anyCmd>>
    /\ UNCHANGED issued
    /\ UNCHANGED kbLocals
    /\ UNCHANGED fakeVars
    /\ UNCHANGED <<quest_zero, zeroIter, last_sent_command, age, offset_deg,
                   target_pos, drained,
                   latest_data>>

\* a mutant of StaleCommand: the last command is held
StaleHold(zero_pos, last_sent) == last_sent

\* the joint vector commanded when the data is stale: robot_zero_pos
StaleCommand(zero_pos, last_sent) == zero_pos

\* what a pass of the control loop does with the datagram latest that its
\* receive loop left (NoData if there was none): the datagram restarts the
\* timer and is parsed, and its clipped target is commanded if it is farther
\* than MIN_COMMAND_CHANGE from last_sent_command; with no datagram,
\* robot_zero_pos is commanded once the timer exceeds STALE_DATA_TIMEOUT
QHandle(latest) ==
    IF latest # NoData
    THEN /\ age' = 0
         /\ IF latest.kind = "ok"
            THEN LET off == <<WrapDeg(latest.pitch - quest_zero[1]),
                              WrapDeg(latest.yaw - quest_zero[2])>>
                     final_command == QuestFinalCommand(home_position, off)
                 IN  /\ offset_deg' = off
                     /\ target_pos' = TargetPos(home_position, off)
                     /\ IF FartherThan(final_command, last_sent_command,
                                       MIN_COMMAND_CHANGE)
                        THEN /\ Issue(final_command, "tracking")
                             /\ last_sent_command' = final_command
                        ELSE /\ NoIssue
                             /\ UNCHANGED last_sent_command
            ELSE /\ NoIssue
                 /\ UNCHANGED <<offset_deg, target_pos, last_sent_command>>
    ELSE IF age > STALE_DATA_TIMEOUT
         THEN /\ Issue(StaleCommand(home_position, last_sent_command), "stale")
              /\ last_sent_command' = home_position
              /\ age' = 0
              /\ UNCHANGED <<offset_deg, target_pos>>
         ELSE /\ NoIssue
              /\ UNCHANGED <<age, offset_deg, target_pos, last_sent_command>>

\* one pass of the control loop with nothing arriving while it receives: the
\* socket is drained and the last datagram handled
QTick ==
    /\ sessPc = "q_active"
    /\ QHandle(Drain(sock, NoData))
    /\ sock' = <<>>
    /\ drained' = Len(sock)
    /\ UNCHANGED latest_data
    /\ UNCHANGED <<sessPc, quest_zero, zeroIter>>
    /\ UNCHANGED <<portOpen, stop_thread, torque_enabled, joint_angles,
                   lastCommitted>>
    /\ UNCHANGED driverRest
    /\ UNCHANGED <<robot_torque_on, home_position>>
    /\ UNCHANGED kbLocals
    /\ UNCHANGED fakeVars

\* one iteration of the inner "while True" of a pass, datagrams arriving in
\* between: select with timeout 0, then recvfrom into latest_data if the
\* socket is ready, else break and the rest of the pass.  drained counts the
\* datagrams of the pass up to MaxQueue.
QRecvStep ==
    /\ sessPc \in {"q_active", "q_recv"}
    /\ IF sock # <<>>
       THEN /\ latest_data' = Head(sock)
            /\ sock' = Tail(sock)
            /\ drained' = IF sessPc = "q_active" THEN 1
                           ELSE Min2(drained + 1, MaxQueue)
            /\ sessPc' = "q_recv"
            /\ NoIssue
            /\ UNCHANGED <<age, offset_deg, target_pos, last_sent_command>>
       ELSE /\ QHandle(latest_data)
            /\ latest_data' = NoData
            /\ drained' = IF sessPc = "q_active" THEN 0 ELSE drained
            /\ sessPc' = "q_active"
            /\ UNCHANGED sock
    /\ UNCHANGED <<quest_zero, zeroIter>>
    /\ UNCHANGED <<portOpen, stop_thread, torque_enabled, joint_angles,
                   lastCommitted>>
    /\ UNCHANGED driverRest
    /\ UNCHANGED <<robot_torque_on, home_position>>
    /\ UNCHANGED kbLocals
    /\ UNCHANGED fakeVars

\* KeyboardInterrupt inside the control loop.  The except and finally blocks
\* read none of the loop's locals but robot_zero_pos: the others are dropped
\* here (set to their initial values); the socket keeps its queue.
QInterrupt ==
    /\ sessPc \in {"q_active", "q_recv"}
    /\ sessPc' = "q_final_cmd"
    /\ NoIssue
    /\ quest_zero' = <<0, 0>>
    /\ last_sent_command' = ZeroVec
    /\ age' = 0
    /\ offset_deg' = <<0, 0>>
    /\ target_pos' = ZeroVec
    /\ drained' = 0
    /\ latest_data' = NoData
    /\ UNCHANGED <<sock, zeroIter>>
    /\ UNCHANGED <<portOpen, stop_thread, torque_enabled, joint_angles,
                   lastCommitted>>
    /\ UNCHANGED driverRest
    /\ UNCHANGED <<robot_torque_on, home_position>>
    /\ UNCHANGED kbLocals
    /\ UNCHANGED fakeVars

\* finally: robot.command_joint_state(robot_zero_pos)
QFinalCmd ==
    /\ sessPc = "q_final_cmd"
    /\ Issue(home_position, "returning")
    /\ sessPc' = "q_torque_off"
    /\ UNCHANGED <<portOpen, stop_thread, torque_enabled, joint_angles,
                   lastCommitted>>
    /\ UNCHANGED driverRest
    /\ UNCHANGED <<robot_torque_on, home_position>>
    /\ UNCHANGED kbLocals
    /\ UNCHANGED fakeVars
    /\ UNCHANGED questLocals

\* finally: robot.command_joint_state(robot_zero_pos) raises; the handler
\* around the cleanup prints the exception, which skips set_torque_mode(False)
\* and robot.close(); then sock.close()
QFinalCmdError ==
    /\ sessPc = "q_final_cmd"
    /\ sessPc' = "done"
    /\ sock' = <<>>
    /\ NoIssue
    /\ UNCHANGED <<portOpen, stop_thread, torque_enabled, joint_angles,
                   lastCommitted>>
    /\ UNCHANGED driverRest
    /\ UNCHANGED <<robot_torque_on, home_position>>
    /\ UNCHANGED kbLocals
    /\ UNCHANGED fakeVars
    /\ UNCHANGED <<quest_zero, zeroIter, last_sent_command, age, offset_deg,
                   target_pos, drained,
                   latest_data>>

\* finally: robot.set_torque_mode(False)
QTorqueOff ==
    /\ sessPc = "q_torque_off"
    /\ RobotSetTorque(FALSE)
    /\ sessPc' = "q_close"
    /\ cmd' = NoCmd
    /\ cmdPhase' = "none"
    /\ UNCHANGED <<portOpen, stop_thread, joint_angles, lastCommitted>>
    /\ UNCHANGED driverRest
    /\ UNCHANGED <<home_position, anyCmd>>
    /\ UNCHANGED issued
    /\ UNCHANGED kbLocals
    /\ UNCHANGED fakeVars
    /\ UNCHANGED questLocals

\* a mutant of QClose: the try/finally sits inside the "while True", so the
\* loop goes on after the cleanup
QCloseInsideLoop ==
    /\ sessPc = "q_close"
    /\ DriverClose
    /\ sessPc' = "q_active"
    /\ UNCHANGED <<joint_angles, lastCommitted>>
    /\ UNCHANGED driverRest
    /\ UNCHANGED <<robot_torque_on, home_position, cmd, cmdPhase, anyCmd>>
    /\ UNCHANGED issued
    /\ UNCHANGED kbLocals
    /\ UNCHANGED fakeVars
    /\ UNCHANGED questLocals

\* finally: robot.close(), then sock.close()
QClose ==
    /\ sessPc = "q_close"
    /\ DriverClose
    /\ sock' = <<>>
    /\ sessPc' = "done"
    /\ UNCHANGED <<joint_angles, lastCommitted>>
    /\ UNCHANGED driverRest
    /\ UNCHANGED <<robot_torque_on, home_position, cmd, cmdPhase, anyCmd>>
    /\ UNCHANGED issued
    /\ UNCHANGED kbLocals
    /\ UNCHANGED fakeVars
    /\ UNCHANGED <<quest_zero, zeroIter, last_sent_command, age, offset_deg,
                   target_pos, drained,
                   latest_data>>

NextQuest ==
    \/ QConstruct
    \/ QTorqueOn
    \/ QHoming
    \/ QTestMove
    \/ QTestCheck
    \/ QStartupError
    \/ QArrive
    \/ QClock
    \/ QZeroStep
    \/ QNoZero
    \/ QTick
    \/ QInterrupt
    \/ QFinalCmd
    \/ QFinalCmdError
    \/ QTorqueOff
    \/ QClose

\* the head-tracker session (Television_Quest_Sync.py) over the driver
SpecQuest == InitKeyboard /\ [][NextQuest]_vars

\* the head-tracker session with the receive loop of a pass taken one
\* iteration at a time, so that datagrams arrive while it runs
NextQuestRecv ==
    \/ QConstruct
    \/ QTorqueOn
    \/ QHoming
    \/ QTestMove
    \/ QTestCheck
    \/ QStartupError
    \/ QArrive
    \/ QClock
    \/ QZeroStep
    \/ QNoZero
    \/ QRecvStep
    \/ QInterrupt
    \/ QFinalCmd
    \/ QFinalCmdError
    \/ QTorqueOff
    \/ QClose

\* that session with its main thread scheduled while it is in the control
\* loop; nothing is assumed of the datagrams' arrival
SpecQuestRecv == InitKeyboard /\ [][NextQuestRecv]_vars /\ WF_vars(QRecvStep)

\* either session script over the driver
SpecSessions == InitKeyboard /\ [][NextKeyboard \/ NextQuest]_vars

\* ------------------------------------------ head-tracker session properties
\* a pass of the control loop that dequeues datagrams, the last of them d
LastDequeued(d) ==
    /\ sessPc = "q_active"
    /\ sock # <<>>
    /\ sock' = <<>>
    /\ sock[Len(sock)] = d

\* a pass of the control loop whose last datagram parses
ValidSampleTick == \E d \in Datagrams : d.kind = "ok" /\ LastDequeued(d)

\* a pass of the control loop whose last datagram does not parse
MalformedTick == \E d \in Datagrams : d.kind # "ok" /\ LastDequeued(d)

\* the square of the distance of two joint vectors
DistSq(a, b) == NormSq([i \in Joints |-> a[i] - b[i]])

\* C12: when the last command issued, c1, came from a valid sample and the
\* next valid sample's clamped candidate c2 is closer to c1 than
\* MIN_COMMAND_CHANGE, the pass issues no command and writes no register, and
\* last_sent_command stays c1.
C12_Debounce ==
    [][(/\ ValidSampleTick
        /\ issued.by = "tracking"
        /\ DistSq(QuestFinalCommand(home_position, offset_deg'), issued.pos)
              < MIN_COMMAND_CHANGE * MIN_COMMAND_CHANGE)
         => /\ cmd' = NoCmd
            /\ issued' = issued
            /\ txLog' = txLog
            /\ last_sent_command = issued.pos
            /\ last_sent_command' = issued.pos]_vars

\* the control loop has seen no datagram for longer than STALE_DATA_TIMEOUT
StaleState ==
    /\ sessPc = "q_active"
    /\ sock = <<>>
    /\ age > STALE_DATA_TIMEOUT

\* C13: a pass of the control loop made when no datagram has arrived for
\* longer than the staleness timeout issues a command, and that command is
\* strictly closer to the home position than the command issued before it,
\* unless it is the home position itself.
C13_StaleReturnsTowardHome ==
    [][/\ (StaleState /\ cmd' # NoCmd)
            => \/ DistSq(cmd', home_position) < DistSq(issued.pos, home_position)
               \/ cmd' = home_position
       /\ (StaleState /\ sessPc' = "q_active" /\ age' = 0) => cmd' # NoCmd]_vars

\* after a sample that moved the target away from home, the data went stale
\* and the loop has commanded the home position
C13_Witness ==
    /\ sessPc = "q_active"
    /\ cmdPhase = "stale"
    /\ cmd = home_position
    /\ issued.by = "stale"
    /\ age = 0
    /\ DistSq(QuestFinalCommand(home_position, offset_deg), home_position)
          > MIN_COMMAND_CHANGE * MIN_COMMAND_CHANGE

\* C14 (as claimed): a pass of the control loop whose datagram is malformed
\* has no effect on the control state: no command is issued, no register
\* written, last_sent_command and the staleness timer are as before, and the
\* loop goes on.
C14_MalformedNoEffect ==
    [][MalformedTick
         => /\ cmd' = NoCmd
            /\ txLog' = txLog
            /\ last_sent_command' = last_sent_command
            /\ age' = age
            /\ sessPc' = "q_active"]_vars

\* C15: a pass of the control loop that finds datagrams queued dequeues all
\* of them, and what it leaves behind (offsets, command, last_sent_command,
\* timer) is determined by the last datagram and the control state before
\* the pass: the datagrams dequeued before the last have no effect.
C15_OnlyLastDatagramCounts ==
    [][(sessPc = "q_active" /\ Len(sock') < Len(sock))
         => LET d == sock[Len(sock)]
                off == <<WrapDeg(d.pitch - quest_zero[1]),
                         WrapDeg(d.yaw - quest_zero[2])>>
                candidate == QuestFinalCommand(home_position, off)
                far == DistSq(candidate, last_sent_command)
                         > MIN_COMMAND_CHANGE * MIN_COMMAND_CHANGE
            IN  /\ sock' = <<>>
                /\ drained' = Len(sock)
                /\ age' = 0
                /\ IF d.kind = "ok"
                   THEN /\ offset_deg' = off
                        /\ cmd' = IF far THEN candidate ELSE NoCmd
                        /\ last_sent_command'
                             = IF far THEN candidate ELSE last_sent_command
                   ELSE /\ offset_deg' = offset_deg
                        /\ cmd' = NoCmd
                        /\ last_sent_command' = last_sent_command]_vars

\* a pass has dequeued two datagrams and commanded the target of the second
C15_Witness ==
    /\ sessPc = "q_active"
    /\ drained >= 2
    /\ sock = <<>>
    /\ cmdPhase = "tracking"
    /\ cmd = QuestFinalCommand(home_position, offset_deg)
    /\ last_sent_command = cmd

\* the pitch and yaw of the datagrams that parse
ValidZeros == { <<d.pitch, d.yaw>> : d \in { x \in Datagrams : x.kind = "ok" } }

\* C16 (as claimed): the control loop runs with the pitch and yaw of a valid
\* datagram as its zero, and the session gives up for lack of a zero point
\* only if no valid datagram arrived while the zero-point loop was running:
\* none is left queued behind the malformed ones.
C16_ValidDatagramEstablishesZero ==
    /\ sessPc = "q_active" => quest_zero \in ValidZeros
    /\ sessPc = "q_nozero" => \A k \in DOMAIN sock : sock[k].kind # "ok"

\* the zero-point loop has made all its passes without a valid datagram
NoZeroPoint == zeroIter = ZeroTries

\* C17: when the zero-point loop ends without a valid datagram, the session
\* is never in the control loop, the only joint commands it has issued are
\* those of the startup movement test, and it ends with the torque-disable
\* writes made, the torque flag false and the port closed.
C17_NoZeroPointAborts ==
    NoZeroPoint
      => /\ sessPc \in {"q_nozero", "done"}
         /\ issued.by = "startup"
         /\ cmd = NoCmd
         /\ drained = 0
         /\ sessPc = "done"
              => /\ ~torque_enabled
                 /\ ~portOpen
                 /\ stop_thread
                 /\ LogIds(txLog) = JOINT_IDS
                 /\ \A k \in DOMAIN txLog :
                      /\ txLog[k].addr = ADDR_TORQUE_ENABLE
                      /\ txLog[k].value = TORQUE_DISABLE

\* the session has ended for lack of a zero point: torque off, port closed
C17_Witness ==
    /\ NoZeroPoint
    /\ sessPc = "done"
    /\ ~torque_enabled
    /\ ~portOpen
    /\ issued.by = "startup"

\* off is the wrapped form of the difference diff (tenths of a degree): in
\* (-180, 180] degrees and congruent to diff modulo 360 degrees
WrappedHalfOpen(off, diff) ==
    /\ -1800 < off
    /\ off <= 1800
    /\ (off - diff) % 3600 = 0

\* C18 (as claimed): for every parsed sample, the pitch and yaw offsets the
\* pass computes from (current - zero) lie in (-180, 180] degrees and are
\* congruent to (current - zero) modulo 360; a difference of exactly 180
\* degrees gives +180.
C18_OffsetsWrappedHalfOpen ==
    [][ValidSampleTick
         => LET d == sock[Len(sock)]
            IN  /\ WrappedHalfOpen(offset_deg'[1], d.pitch - quest_zero[1])
                /\ WrappedHalfOpen(offset_deg'[2], d.yaw - quest_zero[2])
                /\ d.yaw - quest_zero[2] = 1800 => offset_deg'[2] = 1800]_vars

\* the session is about to disable torque at the end of a shutdown that
\* followed the control loop (the keyboard session also disables torque
\* after a failed safety check, with something reported)
BeforeTorqueOff ==
    \/ sessPc = "torque_off" /\ reported = {}
    \/ sessPc = "q_torque_off"

\* the registers written by the last bus-writing call are goal positions
GoalWritesLogged == txLog # <<>> /\ txLog[1].addr = ADDR_GOAL_POSITION

\* C19: in the shutdown of either session after its control loop, the joint
\* command issued last is the home position and is issued with torque enabled
\* and the port open; the torque-disable writes follow it, the port is closed
\* after them, and no goal position is written and no command issued once
\* torque has been disabled.
C19_ShutdownOrder ==
    [][/\ BeforeTorqueOff
            => /\ cmd = home_position
               /\ GoalWritesLogged
               /\ \A k \in DOMAIN txLog : txLog[k].flag
               /\ portOpen /\ torque_enabled /\ robot_torque_on
       /\ (BeforeTorqueOff /\ sessPc' # sessPc)
            => /\ LogIds(txLog') = JOINT_IDS
               /\ \A k \in DOMAIN txLog' :
                    /\ txLog'[k].addr = ADDR_TORQUE_ENABLE
                    /\ txLog'[k].value = TORQUE_DISABLE
               /\ ~torque_enabled' /\ ~robot_torque_on'
               /\ portOpen'
               /\ cmd' = NoCmd
       /\ (portOpen /\ ~portOpen' /\ sessPc \in {"close", "q_close"})
            => ~torque_enabled' /\ ~robot_torque_on /\ sessPc' = "done"
       /\ (~robot_torque_on /\ sessPc \in {"close", "q_close", "done"})
            => /\ cmd' = NoCmd
               /\ ~GoalWritesLogged'
               /\ sessPc' \in {"close", "q_close", "done"}]_vars

\* the head-tracker session has ended after its control loop: the last
\* command was the home position, torque is off and the port closed
C19_Witness ==
    /\ sessPc = "done"
    /\ issued = [by |-> "returning", pos |-> home_position]
    /\ ~torque_enabled
    /\ ~robot_torque_on
    /\ ~portOpen
    /\ LogIds(txLog) = JOINT_IDS
    /\ \A k \in DOMAIN txLog : txLog[k].value = TORQUE_DISABLE

\* the control state of a session at script position pc: 0 before the control
\* loop (construction, homing, checks, zero point), 1 Active (the control
\* loop), 2 ReturningHome (the shutdown sequence; also the cleanup of a session
\* that gives up before its loop), 3 ended
ControlState(pc) ==
    IF pc \in {"active", "q_active"} THEN 1
    ELSE IF pc \in {"finally", "ramp", "final_cmd", "torque_off", "close",
                    "q_nozero", "q_final_cmd", "q_torque_off", "q_close"} THEN 2
    ELSE IF pc \in {"done", "failed"} THEN 3
    ELSE 0

\* the values get_joint_state can return for a cache the poller has filled or
\* left as constructed
HomeReadings ==
    { get_joint_state(v) : v \in TickVecs \cup QuestReads \cup {ZeroVec} }

\* C20: the control state of a session never moves backward; the control loop
\* is entered only from the step that follows the capture of the home
\* position, with the home position captured and left as it is; and once the
\* shutdown sequence has begun no key state is sampled and no datagram
\* dequeued, and the sequence leads only to the end of the session.
C20_ControlStateForwardOnly ==
    [][/\ ControlState(sessPc') >= ControlState(sessPc)
       /\ (ControlState(sessPc) = 0 /\ ControlState(sessPc') = 1)
            => /\ sessPc \in {"check", "q_zero"}
               /\ home_position \in HomeReadings
               /\ home_position' = home_position
               /\ robot_torque_on
       /\ ControlState(sessPc) = 2
            => /\ sock' = sock \/ (sock' = <<>> /\ sessPc' = "done")
               /\ drained' = drained
               /\ keyLR' \in {keyLR, "none"}
               /\ keyUD' \in {keyUD, "none"}
               /\ ControlState(sessPc') \in {2, 3}]_vars

\* the head-tracker session is in its shutdown sequence with a datagram
\* waiting in the socket, which it does not read
C20_Witness ==
    /\ sessPc = "q_torque_off"
    /\ sock # <<>>
    /\ issued.by = "returning"
    /\ home_position \in HomeReadings

\* a sample a tenth of a degree from the one that produced the last command
\* has been processed: its candidate differs from the last command by less
\* than the threshold, and the last command is still the one sent before
C12_Witness ==
    /\ sessPc = "q_active"
    /\ issued.by = "tracking"
    /\ cmd = NoCmd
    /\ drained > 0
    /\ sock = <<>>
    /\ QuestFinalCommand(home_position, offset_deg) # issued.pos
    /\ DistSq(QuestFinalCommand(home_position, offset_deg), issued.pos)
          < MIN_COMMAND_CHANGE * MIN_COMMAND_CHANGE
    /\ last_sent_command = issued.pos

\* ------------------------------------------------- error paths of the sessions
\* main() has ended
SessionEnded == sessPc \in {"failed", "done"}

\* the bus has been opened: the port is open, or close() has run on it
BusOpened == portOpen \/ stop_thread

\* the last bus-writing call wrote torque-disable to every actuator
TorqueDisableAttempted ==
    /\ LogIds(txLog) = JOINT_IDS
    /\ \A k \in DOMAIN txLog :
         /\ txLog[k].addr = ADDR_TORQUE_ENABLE
         /\ txLog[k].value = TORQUE_DISABLE

\* C21 (as claimed): whenever a session has ended after the bus was opened, a
\* torque-disable was attempted and the port is closed -- also after an error
\* raised during startup or by the shutdown command
C21_CleanupOnEveryExit ==
    (SessionEnded /\ BusOpened) => (~portOpen /\ TorqueDisableAttempted)

\* ------------------------------------- keyboard session properties, continued
\* the yaw step of an arrow key: positive for right, negative for left
YawStep(lr) == IF lr = "right" THEN LR_STEP_SIZE ELSE -LR_STEP_SIZE

\* C24: in a keyboard control tick with no arrow key active no command is
\* issued; with only a yaw key active (left or right) and the stepped yaw in
\* range, the command issued is the current feedback with joint 0 changed by
\* exactly the yaw step (negative for left, positive for right) and both pitch
\* joints at their current values.  A step out of "active" that leaves the
\* cache alone is a pass of the loop; it stays in "active" unless 'q' or an
\* interrupt ended the loop.
C24_YawKeyCommand ==
    [][(sessPc = "active" /\ joint_angles' = joint_angles) =>
         LET current == get_joint_state(joint_angles)
         IN  /\ (keyLR' = "none" /\ keyUD' = "none") => cmd' = NoCmd
             /\ ( /\ keyLR' \in {"left", "right"}
                  /\ keyUD' = "none"
                  /\ InRange(LR_LIMITS_RAD, current[1] + YawStep(keyLR'))
                  /\ sessPc' = "active" )
                  => cmd' = <<current[1] + YawStep(keyLR'), current[2],
                              current[3]>>]_vars

\* a tick with only the left key has commanded joint 0 one step down, the
\* pitch joints as the feedback has them
C24_Witness ==
    /\ sessPc = "active"
    /\ keyLR = "left"
    /\ keyUD = "none"
    /\ cmd # NoCmd
    /\ cmd = [get_joint_state(joint_angles) EXCEPT ![1] = @ - LR_STEP_SIZE]

\* -------------------------------- head-tracker session properties, continued
\* C25: the candidate target of a pass that parses a sample is a function of
\* the home position, the reference zero and that sample only, whatever the
\* feedback and the commands sent before; when the yaw offset is 0 the target
\* differs from home only in the two pitch joints, by amounts of the same
\* magnitude that are opposite once the joint signs are applied.
C25_TargetFromHomeZeroSample ==
    [][ValidSampleTick =>
         LET d == sock[Len(sock)]
             yaw_deg == WrapDeg(d.yaw - quest_zero[2])
             yaw == Deg2Rad(yaw_deg) * YAW_SENSITIVITY
             pitch == Deg2Rad(WrapDeg(d.pitch - quest_zero[1]))
                        * PITCH_SENSITIVITY
             delta == [i \in Joints |-> target_pos'[i] - home_position[i]]
         IN  /\ target_pos' = <<home_position[1] - yaw,
                                home_position[2] + pitch,
                                home_position[3] + pitch>>
             /\ yaw_deg = 0 =>
                  /\ delta[1] = 0
                  /\ delta[2] * JOINT_SIGNS[2] = -(delta[3] * JOINT_SIGNS[3])]_vars

\* a sample a tenth of a degree up from the zero with the same yaw has moved both
\* pitch joints of the target, and the feedback is not at home
C25_Witness ==
    /\ sessPc = "q_active"
    /\ offset_deg[2] = 0
    /\ offset_deg[1] # 0
    /\ target_pos[1] = home_position[1]
    /\ target_pos[2] # home_position[2]
    /\ target_pos[2] - home_position[2] = target_pos[3] - home_position[3]
    /\ get_joint_state(joint_angles) # home_position

\* C26 (as claimed): in a pass of the head-tracker loop that issues a tracking
\* command, a joint whose target is outside its limits is commanded at the
\* feedback value of that joint, not at the limit and not at the target.
C26_HoldOutsideLimits ==
    [][(sessPc = "q_active" /\ cmd' # NoCmd /\ issued'.by = "tracking")
         => \A i \in Joints :
              ~InRange(QuestLimits[i], target_pos'[i])
                 => cmd'[i] = get_joint_state(joint_angles)[i]]_vars

\* the joints of pos outside the head-tracker session's limits
QuestOutOfRange(pos) == { i \in Joints : ~InRange(QuestLimits[i], pos[i]) }

\* C27 (as claimed): the head-tracker session checks the captured home
\* position against the joint limits: with a joint of the home outside its
\* limits no joint command is issued, the startup test move included, and the
\* control loop is not entered.
C27_UnsafeHomeNoCommand ==
    (issued.by # "none" \/ sessPc \in {"q_zero", "q_active"})
       => QuestOutOfRange(home_position) = {}

\* C28 (as claimed): every command the head-tracker loop issues, for a sample
\* or for stale data, is farther than MIN_COMMAND_CHANGE from
\* last_sent_command as the pass found it; a target equal to the last sent
\* command is not sent again.
C28_EveryCommandDebounced ==
    [][(sessPc = "q_active" /\ cmd' # NoCmd)
         => DistSq(cmd', last_sent_command)
              > MIN_COMMAND_CHANGE * MIN_COMMAND_CHANGE]_vars

\* --------------------------------------------- properties of both sessions
\* the feedback a return-home command starts from: current_pos of the
\* keyboard session's loop, the cache for the head-tracker session
ReturnFeedback ==
    IF sessPc \in {"ramp", "final_cmd"} THEN current_pos
    ELSE get_joint_state(joint_angles)

\* C29 (as claimed): every command issued while either session returns home
\* lies within one step of the feedback read for it, so the home position is
\* commanded only from at most a step away.  One unit is allowed for the
\* rounding of the three elements of a step; a step that changes the cache
\* is the poller's, not the session's.
C29_ReturnWithinOneStep ==
    [][(cmd' # NoCmd /\ cmdPhase' = "returning" /\ joint_angles' = joint_angles)
         => DistSq(cmd', ReturnFeedback)
              <= (UD_STEP_SIZE + 1) * (UD_STEP_SIZE + 1)]_vars

\* a step of the main thread in the finally block of the keyboard session
KbShutdownStep ==
    \/ KbFinally
    \/ KbRamp
    \/ KbFinalCmd
    \/ KbTorqueOff
    \/ KbClose

\* the keyboard session with its finally block scheduled: once entered, the
\* main thread goes on executing it.  Nothing is assumed of the poller's
\* cycles succeeding, of the keys or of the actuators.
SpecKeyboardFair == SpecKeyboard /\ WF_vars(KbShutdownStep)

\* C30 (as claimed): once the keyboard session has entered its return home,
\* it eventually issues the final home command, disables the torque and
\* closes the port, also when the position feedback stops changing.
C30_ShutdownTerminates ==
    (sessPc = "finally") ~> (sessPc = "done" /\ ~torque_enabled /\ ~portOpen)

\* ------------------------------------------------- driver shutdown properties
\* close() has returned from closePort()
PortClosedByClose == closing /\ ~portOpen

\* the poller is about to send, or is sending, the bulk read of a cycle
BulkReadInProgress == pollPc = "txrx"

\* C31 (as claimed): once close() has closed the port the poller has no bulk
\* read in progress and starts none, wherever the poller was when the join
\* returned.
C31_NoBusAfterClosePort ==
    PortClosedByClose => ~BulkReadInProgress

\* a step of the poller thread
PollerStep ==
    \/ PollWhile
    \/ PollAcquire
    \/ PollTxRx
    \/ PollRead
    \/ PollCommit

\* a step of the control thread inside a driver call it has entered; inside
\* close() these are the join, set_torque_mode(False) and closePort()
CtrlStep ==
    \/ SjAcquire
    \/ SjWrite
    \/ TmAcquire
    \/ TmWrite
    \/ TmFlag
    \/ GjCopy
    \/ ClJoin
    \/ ClPort

\* the driver with its threads scheduled: while a thread can take a step,
\* some thread takes one in the end, and every bus transaction returns.
\* Which thread runs, and which gets the lock first, is not assumed.
SpecDriverFair == Spec /\ WF_vars(PollerStep \/ CtrlStep)

\* the poller thread has ended: its loop test found the stop flag set, or an
\* exception of a transaction on the closed port ended it
PollerEnded == pollPc \in {"exited", "dead"}

\* poll cycles the poller can still start when the stop flag is set: one if
\* it has passed the loop test and waits for the lock, none otherwise
CyclesLeft == IF pollPc = "lock" THEN 1 ELSE 0

\* close() has returned: the torque-disable writes were attempted for every
\* actuator and the port is closed
CloseCompleted ==
    /\ ctrlPc = "closed"
    /\ ~portOpen
    /\ Len(txLog) = N
    /\ \A k \in DOMAIN txLog :
         /\ txLog[k].addr = ADDR_TORQUE_ENABLE
         /\ txLog[k].value = TORQUE_DISABLE

\* C32: once close() has set the stop flag, the number of cycles the poller
\* can still start is at most one and never grows, a cycle it starts uses it
\* up, and under fair scheduling the poller ends and close() completes with
\* the torque-disable writes attempted and the port closed.
C32_CloseTerminates ==
    /\ [][stop_thread
            => /\ CyclesLeft' <= CyclesLeft
               /\ cycle' # cycle => (CyclesLeft = 1 /\ CyclesLeft' = 0)]_vars
    /\ stop_thread ~> (PollerEnded /\ CloseCompleted)

\* the stop flag is set and the poller, past its loop test, waits for the
\* lock that close() holds for the torque-disable writes: one further cycle
\* will start
C32_Witness ==
    /\ stop_thread
    /\ closing
    /\ pollPc = "lock"
    /\ ctrlPc = "tm_write"
    /\ port_lock = "ctrl"

\* C33: the poller has ended only in states in which the stop flag is set;
\* while the flag is not set, a cycle that ends -- the bulk read failed, an
\* actuator's data was missing, or all was read -- leads back to the loop
\* test, and the loop test leads into the next cycle.
C33_PollerStopsOnlyOnFlag ==
    [][/\ PollerEnded' => stop_thread'
       /\ (PollerOnBus /\ ~PollerOnBus' /\ ~stop_thread) => pollPc' = "while"
       /\ (pollPc = "while" /\ pollPc' # "while" /\ ~stop_thread)
            => pollPc' = "lock"]_vars

\* no cycle has stored readings (the first bulk read failed or an actuator's
\* data was missing), the stop flag is not set, and the poller is in its
\* second cycle
C33_Witness ==
    /\ ~stop_thread
    /\ cycle = 2
    /\ pollPc = "txrx"
    /\ lastCommitted = ZeroVec
    /\ joint_angles = ZeroVec

\* ------------------------------------------- keyboard session, pitch coupling
\* C34 (as claimed): in every command of the keyboard loop the two pitch
\* joints differ from their feedback values by the same amount, which is the
\* signed pitch step or zero: both moved, or both held.
C34_PitchJointsTogether ==
    [][(sessPc = "active" /\ joint_angles' = joint_angles /\ cmd' # NoCmd)
         => LET current == get_joint_state(joint_angles)
                d1 == cmd'[2] - current[2]
                d2 == cmd'[3] - current[3]
            IN  /\ d1 = d2
                /\ d1 \in {0, UD_STEP_SIZE, -UD_STEP_SIZE}]_vars

\* ----------------------------------------- head-tracker session, continued 2
\* C35 (as claimed): whenever a pass of the control loop evaluates the
\* debounce test (its last datagram parses), last_sent_command is the joint
\* vector most recently passed to command_joint_state in the session, the
\* commands of the startup included.
C35_DebounceAgainstLastCommand ==
    [][ValidSampleTick => last_sent_command = issued.pos]_vars

\* ------------------------------------------- driver properties, continued
\* no poll cycle has stored readings yet (the readings of RawReads are never
\* tick 0, so a stored vector differs from the initial one)
NoReadingsYet == lastCommitted = ZeroVec

\* the mid-scale tick for every actuator
MidScaleVec == [i \in Joints |-> 2048]

\* C36 (as claimed): a get_joints call that returns before the first
\* successful poll cycle finds the mid-scale tick in the cache for every
\* actuator and returns 0 rad for every joint.
C36_CacheStartsMidScale ==
    [][(ctrlPc = "gj_lock" /\ ctrlPc' = "idle" /\ NoReadingsYet)
         => /\ joint_angles = MidScaleVec
            /\ gjRet' = ZeroVec]_vars

\* ------------------------------------------------ construction of the driver
\* C37 (as claimed): the construction of the driver either succeeds and starts
\* the poller, or fails with the port not open and no poller started; either
\* way it performs no register operation.
C37_ConstructionAllOrNothing ==
    [][(sessPc = "init" /\ sessPc' # "init")
         => /\ txLog' = <<>>
            /\ IF sessPc' = "failed"
               THEN ~portOpen' /\ ~PollerRunning'
               ELSE portOpen' /\ PollerRunning']_vars

\* ------------------------------------------ head-tracker session, receive loop
\* C38 (as claimed): a pass of the control loop that has begun to receive
\* leaves its receive loop and goes on to handle the sample or the staleness
\* rule, whatever the arrival of datagrams.
C38_ReceiveLoopTerminates ==
    (sessPc = "q_recv") ~> (sessPc # "q_recv")

\* ------------------------------------------------- both sessions, continued
\* the script positions at which the home position is read from the robot
HomingPcs == {"homing", "q_homing"}

\* C39: the home position changes only in the capture step of the startup,
\* which is entered only from the step before it and left by the capture, so
\* that it is taken once; no control tick, staleness handling or shutdown step
\* modifies the value, and the command the shutdown ends with is this value.
C39_HomeCapturedOnce ==
    [][/\ home_position' # home_position
            => (sessPc \in HomingPcs /\ sessPc' \notin HomingPcs)
       /\ (sessPc' \in HomingPcs /\ sessPc \notin HomingPcs)
            => sessPc \in {"torque_on", "q_torque_on"}
       /\ (sessPc \in {"final_cmd", "q_final_cmd"} /\ cmd' # NoCmd)
            => cmd' = home_position]_vars

\* the head-tracker session has commanded the captured home position in its
\* shutdown, after tracking and stale commands, with the feedback elsewhere
C39_Witness ==
    /\ sessPc = "q_torque_off"
    /\ cmd = home_position
    /\ cmdPhase = "returning"
    /\ home_position # ZeroVec
    /\ get_joint_state(joint_angles) # home_position

\* --------------------------------------------- driver properties, goal ticks
\* the integer nearest to angle * 2048 / pi + 2048
NearestTick(angle) == RoundDiv(angle + 2048 * Sub, Sub)

\* C40 (as claimed): the value set_joints writes for an angle is the integer
\* nearest to angle * 2048 / pi + 2048, clamped to the hardware range.
C40_GoalTickRounded ==
    [][(ctrlPc = "sj_write" /\ txLog' # txLog)
         => txLog'[Len(txLog')].value
              = Max2(0, Min2(4095, NearestTick(sjArg[ctrlI])))]_vars

====
